---- MODULE Spec2Model ----
(***************************************************************************)
(* Verification model of the noise-rs field pipeline: NoiseField2D/3D     *)
(* (src/src/noisefield.rs), the Perlin kernel and its batched evaluation  *)
(* (src/src/noise_fns/generators/perlin.rs) and the generators and        *)
(* combinators that implement process_field (src/src/noise_fns).          *)
(*                                                                         *)
(* Numbers.  An f64 is modelled by the real number it stands for, kept    *)
(* exactly as an element (a + b*sqrt(2))/d of the field Q(sqrt 2): every  *)
(* value the modelled code produces from rational coordinates lies in     *)
(* that field (sqrt(2) enters through the gradient tables, the 2D scale   *)
(* factor and cos(pi/4)).  Rounding of f64 arithmetic is not modelled.    *)
(* Vectors are 0-based in the source and 1-based here: slot i of a Vec is *)
(* element i+1 of the sequence.                                            *)
(***************************************************************************)
EXTENDS Integers, Sequences, FiniteSets, TLC

VARIABLES field, outf, retv, last, nops, tree, kern, ser, par, job, slots, wk

vars == <<field, outf, retv, last, nops, tree, kern, ser, par, job, slots, wk>>

(***************************************************************************)
(* Exact arithmetic in Q(sqrt 2)                                           *)
(***************************************************************************)
IAbs(n) == IF n < 0 THEN -n ELSE n

ISgn(n) == IF n < 0 THEN -1 ELSE IF n > 0 THEN 1 ELSE 0

RECURSIVE GCD(_, _)
GCD(m, n) == IF n = 0 THEN m ELSE GCD(n, m % n)

GCD3(a, b, d) == GCD(GCD(IAbs(a), IAbs(b)), d)

\* (a + b*sqrt(2))/d with the common divisor g taken out
Reduced(a, b, d, g) == [a |-> a \div g, b |-> b \div g, d |-> d \div g]

\* (a + b*sqrt(2))/d in lowest terms, d > 0
Num(a, b, d) == Reduced(a, b, d, GCD3(a, b, d))

Q(n) == [a |-> n, b |-> 0, d |-> 1]

Frac(n, d) == Num(n, 0, d)

Sqrt2 == [a |-> 0, b |-> 1, d |-> 1]

NNeg(x) == [a |-> -x.a, b |-> -x.b, d |-> x.d]

\* x + y over the least common denominator, g the gcd of the denominators
NAddOver(x, y, g) ==
    Num(x.a * (y.d \div g) + y.a * (x.d \div g),
        x.b * (y.d \div g) + y.b * (x.d \div g), x.d * (y.d \div g))

\* In NAdd and NMul the guard d > 0, true of every number, has the checker
\* evaluate both operands before it enters the operation, which keeps its
\* evaluation stack shallow on nested expressions.
NAdd(x, y) == CASE x.d > 0 /\ y.d > 0 -> NAddOver(x, y, GCD(x.d, y.d))

NSub(x, y) == NAdd(x, NNeg(y))

\* x * y with g1 cancelled between x's numerator and y's denominator and g2
\* between y's numerator and x's denominator
NMulCross(x, y, g1, g2) ==
    Num((x.a \div g1) * (y.a \div g2) + 2 * (x.b \div g1) * (y.b \div g2),
        (x.a \div g1) * (y.b \div g2) + (x.b \div g1) * (y.a \div g2),
        (x.d \div g2) * (y.d \div g1))

NMul(x, y) ==
    CASE x.d > 0 /\ y.d > 0 ->
        NMulCross(x, y, GCD3(x.a, x.b, y.d), GCD3(y.a, y.b, x.d))

\* m/n > sqrt(2) for positive integers, by the continued fraction of sqrt(2):
\* for 1 < m/n < 2,  m/n > sqrt 2  <=>  (2n - m)/(m - n) < sqrt 2
RECURSIVE GtSqrt2(_, _)
GtSqrt2(m, n) ==
    IF m >= 2 * n THEN TRUE
    ELSE IF m <= n THEN FALSE
    ELSE ~GtSqrt2(2 * n - m, m - n)

\* sign of a + b*sqrt(2)
NSign(x) ==
    IF x.b = 0 THEN ISgn(x.a)
    ELSE IF x.a = 0 THEN ISgn(x.b)
    ELSE IF ISgn(x.a) = ISgn(x.b) THEN ISgn(x.a)
    ELSE IF GtSqrt2(IAbs(x.a), IAbs(x.b)) THEN ISgn(x.a) ELSE ISgn(x.b)

\* 1/y for y # 0: (a - b*sqrt 2) * d / (a^2 - 2 b^2)
NInv(y) ==
    LET n == y.a * y.a - 2 * y.b * y.b
    IN  Num(ISgn(n) * y.a * y.d, -ISgn(n) * y.b * y.d, IAbs(n))

NDiv(x, y) == NMul(x, NInv(y))

NLt(x, y) == NSign(NSub(x, y)) < 0

NGt(x, y) == NLt(y, x)

NLe(x, y) == ~NLt(y, x)

NAbs(x) == IF NSign(x) < 0 THEN NNeg(x) ELSE x

NMin(x, y) == IF NLt(y, x) THEN y ELSE x

NMax(x, y) == IF NLt(x, y) THEN y ELSE x

\* f64::floor on a rational value (coordinates are rational in every run)
NFloor(x) == Q(x.a \div x.d)

RECURSIVE NPowi(_, _)
NPowi(x, n) == IF n = 0 THEN Q(1) ELSE NMul(x, NPowi(x, n - 1))

\* iterator.collect(): the Vec of the elements, each computed once, in order
Collect(s) == s \o <<>>

\* Rust computes a `let` binding where it stands, before the code that uses
\* it: Bound(v) computes v, and is TRUE.
Bound(v) == v = v

\* the sequence s with every element replaced by f of it
MapSeq(f(_), s) == Collect([i \in 1..Len(s) |-> f(s[i])])

(***************************************************************************)
(* Bounds of the model                                                     *)
(***************************************************************************)
\* largest small grid dimension given to NoiseField2D::new
MaxDim2 == 3

\* largest small grid dimension given to NoiseField3D::new
MaxDim3 == 2

\* operations are explored on fields of at most this many cells
MaxCells == 9

\* number of operations that construct or change the field in one run
MaxOps == 3

(***************************************************************************)
(* NoiseField2D / NoiseField3D  (src/src/noisefield.rs)                    *)
(***************************************************************************)
MAX_GRID_SIZE == 32767

\* the value of `field` before any field is constructed
NoField == [dim |-> 0, size |-> <<>>, coordinates |-> <<>>, values |-> <<>>]

RECURSIVE Product(_)
Product(s) == IF s = <<>> THEN 1 ELSE Head(s) * Product(Tail(s))

\* vec![x; n]
Vec(x, n) == Collect([i \in 1..n |-> x])

\* outcome of an operation: it returns (status "ok") or it panics; f is the
\* receiver afterwards and ret what was returned (as a sequence of numbers)
Ok(f, ret) == [status |-> "ok", f |-> f, ret |-> ret]

Panic(f) == [status |-> "panic", f |-> f, ret |-> <<>>]

\* a new() that raised a dimension of 0 to 1 instead of failing
NoiseField2D_new_mut(grid_width, grid_height) ==
    LET w == IF grid_width = 0 THEN 1 ELSE grid_width
        h == IF grid_height = 0 THEN 1 ELSE grid_height
    IN  IF w < MAX_GRID_SIZE /\ h < MAX_GRID_SIZE
        THEN Ok([dim |-> 2, size |-> <<w, h>>,
                 coordinates |-> Vec(<<Q(0), Q(0)>>, w * h),
                 values |-> Vec(Q(0), w * h)], <<>>)
        ELSE Panic(NoField)

NoiseField2D_new(grid_width, grid_height) ==
    IF grid_width > 0 /\ grid_height > 0
       /\ grid_width < MAX_GRID_SIZE /\ grid_height < MAX_GRID_SIZE
    THEN LET grid_size == grid_width * grid_height
         IN  Ok([dim |-> 2, size |-> <<grid_width, grid_height>>,
                 coordinates |-> Vec(<<Q(0), Q(0)>>, grid_size),
                 values |-> Vec(Q(0), grid_size)], <<>>)
    ELSE Panic(NoField)

NoiseField3D_new(width, height, depth) ==
    IF width > 0 /\ height > 0 /\ depth > 0
       /\ width < MAX_GRID_SIZE /\ height < MAX_GRID_SIZE /\ depth < MAX_GRID_SIZE
    THEN LET grid_size == width * height * depth
         IN  Ok([dim |-> 3, size |-> <<width, height, depth>>,
                 coordinates |-> Vec(<<Q(0), Q(0), Q(0)>>, grid_size),
                 values |-> Vec(Q(0), grid_size)], <<>>)
    ELSE Panic(NoField)

NoiseField2D_initialize ==
    [dim |-> 2, size |-> <<1, 1>>, coordinates |-> <<>>, values |-> <<>>]

NoiseField3D_initialize ==
    [dim |-> 3, size |-> <<1, 1, 1>>, coordinates |-> <<>>, values |-> <<>>]

set_values(f, values) == [f EXCEPT !.values = values]

NoiseField2D_index_mut(f, grid_point) ==
    grid_point[1] + (f.size[2] * grid_point[2])

NoiseField2D_index(f, grid_point) ==
    grid_point[1] + (f.size[1] * grid_point[2])

NoiseField3D_index(f, grid_point) ==
    grid_point[1] + (grid_point[2] * f.size[1])
        + (grid_point[3] * f.size[1] * f.size[2])

index(f, grid_point) ==
    IF f.dim = 2 THEN NoiseField2D_index(f, grid_point)
    ELSE NoiseField3D_index(f, grid_point)

\* self.coordinates[index]: the only check is the Vec's own length check
coord_at_point(f, grid_point) ==
    LET i == index(f, grid_point)
    IN  IF i < Len(f.coordinates) THEN Ok(f, f.coordinates[i + 1]) ELSE Panic(f)

\* a set_coord_at_point that resets the value of the point it writes
set_coord_at_point_mut(f, grid_point, coordinate) ==
    LET i == index(f, grid_point)
    IN  IF i < Len(f.coordinates)
        THEN Ok([f EXCEPT !.coordinates[i + 1] = coordinate,
                          !.values = [j \in 1..Len(f.values) |->
                                         IF j = i + 1 THEN Q(0) ELSE f.values[j]]], <<>>)
        ELSE Panic(f)

set_coord_at_point(f, grid_point, coordinate) ==
    LET i == index(f, grid_point)
    IN  IF i < Len(f.coordinates)
        THEN Ok([f EXCEPT !.coordinates[i + 1] = coordinate], <<>>)
        ELSE Panic(f)

value_at_point(f, grid_point) ==
    LET i == index(f, grid_point)
    IN  IF i < Len(f.values) THEN Ok(f, <<f.values[i + 1]>>) ELSE Panic(f)

\* a scale_coordinates that scales the values along with the coordinates
scale_coordinates_mut(f, scale) ==
    [f EXCEPT !.coordinates =
        Collect([i \in 1..Len(f.coordinates) |->
                    Collect([k \in 1..f.dim |-> NMul(f.coordinates[i][k], scale)])]),
              !.values = Collect([i \in 1..Len(f.values) |-> NMul(f.values[i], scale)])]

scale_coordinates(f, scale) ==
    [f EXCEPT !.coordinates =
        Collect([i \in 1..Len(f.coordinates) |->
                    Collect([k \in 1..f.dim |-> NMul(f.coordinates[i][k], scale)])])]

\* the loops of build_field, flattened: iteration k visits the grid point
\* (k mod width, k div width) and stops at the first panic
RECURSIVE NoiseField2D_build_loop(_, _, _, _)
NoiseField2D_build_loop(f, x_bounds, y_bounds, k) ==
    IF k = f.size[1] * f.size[2] THEN Ok(f, <<>>)
    ELSE LET x == k % f.size[1]
             y == k \div f.size[1]
             x_extent == NSub(x_bounds[2], x_bounds[1])
             y_extent == NSub(y_bounds[2], y_bounds[1])
             x_step == NDiv(x_extent, Q(f.size[1]))
             y_step == NDiv(y_extent, Q(f.size[2]))
             current_y == NAdd(y_bounds[1], NMul(y_step, Q(y)))
             current_x == NAdd(x_bounds[1], NMul(x_step, Q(x)))
             r == set_coord_at_point(f, <<x, y>>, <<current_x, current_y>>)
         IN  IF r.status = "panic" THEN r
             ELSE NoiseField2D_build_loop(r.f, x_bounds, y_bounds, k + 1)

\* build_field with the x step taken over the height
RECURSIVE NoiseField2D_build_loop_mut(_, _, _, _)
NoiseField2D_build_loop_mut(f, x_bounds, y_bounds, k) ==
    IF k = f.size[1] * f.size[2] THEN Ok(f, <<>>)
    ELSE LET x == k % f.size[1]
             y == k \div f.size[1]
             x_step == NDiv(NSub(x_bounds[2], x_bounds[1]), Q(f.size[2]))
             y_step == NDiv(NSub(y_bounds[2], y_bounds[1]), Q(f.size[2]))
             current_y == NAdd(y_bounds[1], NMul(y_step, Q(y)))
             current_x == NAdd(x_bounds[1], NMul(x_step, Q(x)))
             r == set_coord_at_point(f, <<x, y>>, <<current_x, current_y>>)
         IN  IF r.status = "panic" THEN r
             ELSE NoiseField2D_build_loop_mut(r.f, x_bounds, y_bounds, k + 1)

NoiseField2D_build_field_mut(f, x_bounds, y_bounds) ==
    NoiseField2D_build_loop_mut(f, x_bounds, y_bounds, 0)

NoiseField2D_build_field(f, x_bounds, y_bounds) ==
    NoiseField2D_build_loop(f, x_bounds, y_bounds, 0)

RECURSIVE NoiseField3D_build_loop(_, _, _, _, _)
NoiseField3D_build_loop(f, x_bounds, y_bounds, z_bounds, k) ==
    IF k = f.size[1] * f.size[2] * f.size[3] THEN Ok(f, <<>>)
    ELSE LET x == k % f.size[1]
             y == (k \div f.size[1]) % f.size[2]
             z == k \div (f.size[1] * f.size[2])
             x_extent == NSub(x_bounds[2], x_bounds[1])
             y_extent == NSub(y_bounds[2], y_bounds[1])
             z_extent == NSub(y_bounds[2], y_bounds[1])
             x_step == NDiv(x_extent, Q(f.size[1]))
             y_step == NDiv(y_extent, Q(f.size[2]))
             z_step == NDiv(y_extent, Q(f.size[3]))
             current_z == NAdd(z_bounds[1], NMul(z_step, Q(z)))
             current_y == NAdd(y_bounds[1], NMul(y_step, Q(y)))
             current_x == NAdd(x_bounds[1], NMul(x_step, Q(x)))
             r == set_coord_at_point(f, <<x, y, z>>, <<current_x, current_y, current_z>>)
         IN  IF r.status = "panic" THEN r
             ELSE NoiseField3D_build_loop(r.f, x_bounds, y_bounds, z_bounds, k + 1)

NoiseField3D_build_field(f, x_bounds, y_bounds, z_bounds) ==
    NoiseField3D_build_loop(f, x_bounds, y_bounds, z_bounds, 0)

(***************************************************************************)
(* The client of the field API: one field is constructed and operations    *)
(* are applied to it.  `last` records the last call, its arguments,        *)
(* whether it panicked and the field it was applied to; `retv` is what an  *)
(* accessor returned and `outf` the field a call returned                  *)
(* (scale_coordinates, process_field).  A panic ends the run.              *)
(***************************************************************************)
GridDims(max) == (0..max) \cup {MAX_GRID_SIZE - 1, MAX_GRID_SIZE, MAX_GRID_SIZE + 1}

\* requested sizes: at most one dimension is large, the others then at most 1
SizeInputs(n, max) ==
    {s \in [1..n -> GridDims(max)] :
        \A i, j \in 1..n : (i # j /\ s[i] > max) => s[j] <= 1}

\* grid points given to the accessors: the first and the last point of the
\* grid, the second point of the first row, and the points one past the end
\* of each axis
PointInputs(f) ==
    {[k \in 1..f.dim |-> 0], [k \in 1..f.dim |-> f.size[k] - 1],
     [k \in 1..f.dim |-> IF k = 1 THEN 1 ELSE 0]}
    \cup {[k \in 1..f.dim |-> IF k = a THEN f.size[k] ELSE 0] : a \in 1..f.dim}

XBoundInputs == {<<Q(-1), Q(1)>>, <<Q(1), Q(0)>>}

YBoundInputs == {<<Q(0), Q(2)>>, <<Q(-1), Q(1)>>}

ZBoundInputs == {<<Q(0), Q(1)>>, <<Q(-1), Q(1)>>}

CoordInputs(n) == {[k \in 1..n |-> Frac(2 * k - 1, 2)], [k \in 1..n |-> Frac(-k, 4)]}

ScaleInputs == {Q(1), Q(2), Frac(-1, 2)}

ValueInputs(f) == {<<>>, <<Q(1), Q(2)>>, [i \in 1..Len(f.coordinates) |-> Q(i)]}

Op(op, args, status, pre) == [op |-> op, args |-> args, status |-> status, pre |-> pre]

QueryOps == {"coord_at_point", "value_at_point", "scale_coordinates"}

\* A query (&self) leaves the receiver and nops as they were, so the calls that
\* follow it reach exactly the states they reach without it: calls are
\* explored from the states that a constructing or changing call left.
HasField ==
    /\ last.status = "ok" /\ last.op \notin QueryOps
    /\ field.dim # 0 /\ Len(field.coordinates) <= MaxCells

MayChange == HasField /\ nops < MaxOps

\* the values of the variables of SpecEval and SpecPar while they are not in use
NoTree == [kind |-> "none"]

NoKernel == [seed |-> 0, perm_table |-> <<>>]

NoResult == [done |-> FALSE, values |-> <<>>]

NoJob == [kind |-> "none", input |-> <<>>, env |-> <<>>, pending |-> {}, done |-> FALSE]

EvalVarsInit == tree = NoTree

ParVarsInit ==
    /\ kern = NoKernel /\ ser = NoResult /\ par = NoResult
    /\ job = NoJob /\ slots = <<>> /\ wk = <<>>

Init ==
    /\ field = NoField
    /\ outf = NoField
    /\ retv = <<>>
    /\ last = Op("init", <<>>, "ok", NoField)
    /\ nops = 0
    /\ EvalVarsInit
    /\ ParVarsInit

OtherVars == <<tree, kern, ser, par, job, slots, wk>>

\* a call that constructs or changes the receiver, with outcome r
Change(op, args, r) ==
    /\ field' = r.f
    /\ retv' = r.ret
    /\ outf' = NoField
    /\ last' = Op(op, args, r.status, field)
    /\ nops' = nops + 1
    /\ UNCHANGED OtherVars

\* a call on &self: the receiver is borrowed immutably
Query(op, args, status, ret, out) ==
    /\ retv' = ret
    /\ outf' = out
    /\ last' = Op(op, args, status, field)
    /\ UNCHANGED <<field, nops, OtherVars>>

New2D ==
    /\ field.dim = 0 /\ last.status = "ok"
    /\ \E s \in SizeInputs(2, MaxDim2) :
          Change("new", s, NoiseField2D_new(s[1], s[2]))

New3D ==
    /\ field.dim = 0 /\ last.status = "ok"
    /\ \E s \in SizeInputs(3, MaxDim3) :
          Change("new", s, NoiseField3D_new(s[1], s[2], s[3]))

Initialize ==
    /\ field.dim = 0 /\ last.status = "ok"
    /\ \E f \in {NoiseField2D_initialize, NoiseField3D_initialize} :
          Change("initialize", <<>>, Ok(f, <<>>))

SetValues ==
    /\ MayChange
    /\ \E v \in ValueInputs(field) :
          Change("set_values", <<v>>, Ok(set_values(field, v), <<>>))

SetCoordAtPoint ==
    /\ MayChange
    /\ \E p \in PointInputs(field), c \in CoordInputs(field.dim) :
          Change("set_coord_at_point", <<p, c>>, set_coord_at_point(field, p, c))

BuildField2D ==
    /\ MayChange /\ field.dim = 2
    /\ \E xb \in XBoundInputs, yb \in YBoundInputs :
          Change("build_field", <<xb, yb>>, NoiseField2D_build_field(field, xb, yb))

BuildField3D ==
    /\ MayChange /\ field.dim = 3
    /\ \E xb \in XBoundInputs, yb \in YBoundInputs, zb \in ZBoundInputs :
          Change("build_field", <<xb, yb, zb>>,
                 NoiseField3D_build_field(field, xb, yb, zb))

CoordAtPoint ==
    /\ HasField
    /\ \E p \in PointInputs(field) :
          LET r == coord_at_point(field, p)
          IN  Query("coord_at_point", <<p>>, r.status, r.ret, NoField)

ValueAtPoint ==
    /\ HasField
    /\ \E p \in PointInputs(field) :
          LET r == value_at_point(field, p)
          IN  Query("value_at_point", <<p>>, r.status, r.ret, NoField)

ScaleCoordinates ==
    /\ HasField
    /\ \E sc \in ScaleInputs :
          Query("scale_coordinates", <<sc>>, "ok", <<>>, scale_coordinates(field, sc))

Next ==
    \/ New2D
    \/ New3D
    \/ Initialize
    \/ SetValues
    \/ SetCoordAtPoint
    \/ BuildField2D
    \/ BuildField3D
    \/ CoordAtPoint
    \/ ValueAtPoint
    \/ ScaleCoordinates

Spec == Init /\ [][Next]_vars

(***************************************************************************)
(* Helpers of the crate that the kernels call: permutation table,          *)
(* gradient tables, math and interpolation                                  *)
(***************************************************************************)
\* a permutation of 0..255 derived from the seed: i |-> m * i + c (mod 256) with
\* an odd multiplier m and an odd offset c that both depend on the seed
PermutationTable_new(seed) ==
    [i \in 0..255 |-> ((2 * (seed % 128) + 167) * i + 26 * (seed % 128) + 41) % 256]

\* each lattice coordinate is folded through the table in turn, masked to 8 bits
get2(perm_table, c) == perm_table[(perm_table[c[1] % 256] + c[2]) % 256]

get3(perm_table, c) == perm_table[(get2(perm_table, c) + c[3]) % 256]

Diag == [a |-> 0, b |-> 1, d |-> 2]

\* the 8 unit gradients of the plane: the axes and the diagonals
gradient_get2(i) ==
    CASE i % 8 = 0 -> <<Q(1), Q(0)>>
      [] i % 8 = 1 -> <<Q(-1), Q(0)>>
      [] i % 8 = 2 -> <<Q(0), Q(1)>>
      [] i % 8 = 3 -> <<Q(0), Q(-1)>>
      [] i % 8 = 4 -> <<Diag, Diag>>
      [] i % 8 = 5 -> <<NNeg(Diag), Diag>>
      [] i % 8 = 6 -> <<Diag, NNeg(Diag)>>
      [] i % 8 = 7 -> <<NNeg(Diag), NNeg(Diag)>>

\* the 12 unit gradients of space pointing at the edges of a cube
gradient_get3(i) ==
    LET e == i % 12
        s1 == IF e % 2 = 0 THEN Diag ELSE NNeg(Diag)
        s2 == IF (e \div 2) % 2 = 0 THEN Diag ELSE NNeg(Diag)
    IN  CASE e \div 4 = 0 -> <<s1, s2, Q(0)>>
          [] e \div 4 = 1 -> <<s1, Q(0), s2>>
          [] e \div 4 = 2 -> <<Q(0), s1, s2>>

dot2(a, b) == NAdd(NMul(a[1], b[1]), NMul(a[2], b[2]))

dot3(a, b) == NAdd(dot2(a, b), NMul(a[3], b[3]))

clamp(val, min, max) == IF NLt(val, min) THEN min ELSE IF NGt(val, max) THEN max ELSE val

\* 6t^5 - 15t^4 + 10t^3
s_curve5(t) ==
    NMul(NMul(t, NMul(t, t)), NAdd(NMul(t, NSub(NMul(t, Q(6)), Q(15))), Q(10)))

(***************************************************************************)
(* Perlin  (src/src/noise_fns/generators/perlin.rs)                         *)
(***************************************************************************)
Perlin_new == [seed |-> 0, perm_table |-> PermutationTable_new(0)]

\* a set_seed that stored the seed and kept the permutation table
Perlin_set_seed_mut(self, seed) ==
    IF self.seed = seed THEN self
    ELSE [seed |-> seed, perm_table |-> self.perm_table]

Perlin_set_seed(self, seed) ==
    IF self.seed = seed THEN self
    ELSE [seed |-> seed, perm_table |-> PermutationTable_new(seed)]

\* the body of surflet after `let attn = 1.0 - distance.magnitude_squared()`
surflet2_attenuated(perm_table, corner, distance, attn) ==
    IF Bound(attn) /\ NGt(attn, Q(0))
    THEN NMul(NPowi(attn, 4), dot2(distance, gradient_get2(get2(perm_table, corner))))
    ELSE Q(0)

surflet2(perm_table, corner, distance) ==
    surflet2_attenuated(perm_table, corner, distance,
                        NSub(Q(1), dot2(distance, distance)))

\* the result of perlin_2d_surflet from its four surflets
perlin_2d_surflet_result(f00, f10, f01, f11) ==
    CASE Bound(<<f00, f10, f01, f11>>) ->
        clamp(NMul(NAdd(NAdd(NAdd(f00, f10), f01), f11), Frac(256, 81)), Q(-1), Q(1))

\* the corner and the distance vector given to each surflet call of
\* perlin_2d_surflet, in the order of the calls
perlin_2d_surflets(point) ==
    LET floored == <<NFloor(point[1]), NFloor(point[2])>>
        near_corner == <<floored[1].a, floored[2].a>>
        far_corner == <<near_corner[1] + 1, near_corner[2] + 1>>
        near_distance == <<NSub(point[1], floored[1]), NSub(point[2], floored[2])>>
        far_distance == <<NSub(near_distance[1], Q(1)), NSub(near_distance[2], Q(1))>>
    IN  <<
            <<<<near_corner[1], near_corner[2]>>,
              <<near_distance[1], near_distance[2]>>>>,
            <<<<far_corner[1], near_corner[2]>>,
              <<far_distance[1], near_distance[2]>>>>,
            <<<<near_corner[1], far_corner[2]>>,
              <<near_distance[1], far_distance[2]>>>>,
            <<<<far_corner[1], far_corner[2]>>,
              <<far_distance[1], far_distance[2]>>>> >>

\* the surflets of the calls, summed and scaled
perlin_2d_sum(perm_table, calls) ==
    perlin_2d_surflet_result(
        surflet2(perm_table, calls[1][1], calls[1][2]),
        surflet2(perm_table, calls[2][1], calls[2][2]),
        surflet2(perm_table, calls[3][1], calls[3][2]),
        surflet2(perm_table, calls[4][1], calls[4][2]))

perlin_2d_surflet(self, point) ==
    perlin_2d_sum(self.perm_table, perlin_2d_surflets(point))

\* the inner fn gradient_dot_v of perlin_2d
gradient_dot_v(perm, point) ==
    LET x == point[1]
        y == point[2]
    IN  CASE perm % 4 = 0 -> NAdd(x, y)
          [] perm % 4 = 1 -> NAdd(NNeg(x), y)
          [] perm % 4 = 2 -> NSub(x, y)
          [] perm % 4 = 3 -> NSub(NNeg(x), y)

\* the bilinear interpolation that ends perlin_2d: k0..k3, the unscaled
\* and the scaled result, from the curve values and the corner gradients
perlin_2d_result(u, v, g00, g10, g01, g11) ==
    LET k0 == g00
        k1 == NSub(g10, g00)
        k2 == NSub(g01, g00)
        k3 == NSub(NSub(NAdd(g00, g11), g10), g01)
        unscaled_result ==
            NAdd(NAdd(NAdd(k0, NMul(k1, u)), NMul(k2, v)), NMul(NMul(k3, u), v))
        scale_factor == Sqrt2
        scaled_result == NMul(unscaled_result, scale_factor)
    IN  CASE Bound(<<u, v, g00, g10, g01, g11>>) ->
        CASE Bound(<<k1, k2, k3>>) -> clamp(scaled_result, Q(-1), Q(1))

perlin_2d(self, point) ==
    LET floored == <<NFloor(point[1]), NFloor(point[2])>>
        near_corner == <<floored[1].a, floored[2].a>>
        far_corner == <<near_corner[1] + 1, near_corner[2] + 1>>
        near_distance == <<NSub(point[1], floored[1]), NSub(point[2], floored[2])>>
        far_distance == <<NSub(near_distance[1], Q(1)), NSub(near_distance[2], Q(1))>>
    IN  perlin_2d_result(
            s_curve5(near_distance[1]),
            s_curve5(near_distance[2]),
            gradient_dot_v(get2(self.perm_table, <<near_corner[1], near_corner[2]>>),
                           near_distance),
            gradient_dot_v(get2(self.perm_table, <<far_corner[1], near_corner[2]>>),
                           <<far_distance[1], near_distance[2]>>),
            gradient_dot_v(get2(self.perm_table, <<near_corner[1], far_corner[2]>>),
                           <<near_distance[1], far_distance[2]>>),
            gradient_dot_v(get2(self.perm_table, <<far_corner[1], far_corner[2]>>),
                           far_distance))

\* the inner fn gradient_dot_v of perlin_2d_parallel
gradient_dot_v_parallel(perm, point) ==
    LET x == point[1]
        y == point[2]
    IN  CASE perm % 4 = 0 -> NAdd(x, y)
          [] perm % 4 = 1 -> NAdd(NNeg(x), y)
          [] perm % 4 = 2 -> NSub(x, y)
          [] perm % 4 = 3 -> NSub(NNeg(x), y)

\* a closure that took the zipped pair in the other order
perlin_2d_parallel_closure_mut(self, x, y) == perlin_2d(self, <<y, x>>)

\* the bilinear interpolation that ends the closure of perlin_2d_parallel: k0..k3, the unscaled
\* and the scaled result, from the curve values and the corner gradients
perlin_2d_parallel_result(u, v, g00, g10, g01, g11) ==
    LET k0 == g00
        k1 == NSub(g10, g00)
        k2 == NSub(g01, g00)
        k3 == NSub(NSub(NAdd(g00, g11), g10), g01)
        unscaled_result ==
            NAdd(NAdd(NAdd(k0, NMul(k1, u)), NMul(k2, v)), NMul(NMul(k3, u), v))
        scale_factor == Sqrt2
        scaled_result == NMul(unscaled_result, scale_factor)
    IN  CASE Bound(<<u, v, g00, g10, g01, g11>>) ->
        CASE Bound(<<k1, k2, k3>>) -> clamp(scaled_result, Q(-1), Q(1))

\* the closure that perlin_2d_parallel maps over the zipped x and y slices
perlin_2d_parallel_closure(self, x, y) ==
    LET floored == <<NFloor(x), NFloor(y)>>
        near_corner == <<floored[1].a, floored[2].a>>
        far_corner == <<near_corner[1] + 1, near_corner[2] + 1>>
        near_distance == <<NSub(x, floored[1]), NSub(y, floored[2])>>
        far_distance == <<NSub(near_distance[1], Q(1)), NSub(near_distance[2], Q(1))>>
    IN  perlin_2d_parallel_result(
            s_curve5(near_distance[1]),
            s_curve5(near_distance[2]),
            gradient_dot_v_parallel(get2(self.perm_table, near_corner), near_distance),
            gradient_dot_v_parallel(
                get2(self.perm_table, <<far_corner[1], near_corner[2]>>),
                <<far_distance[1], near_distance[2]>>),
            gradient_dot_v_parallel(
                get2(self.perm_table, <<near_corner[1], far_corner[2]>>),
                <<near_distance[1], far_distance[2]>>),
            gradient_dot_v_parallel(get2(self.perm_table, far_corner), far_distance))

IMin(m, n) == IF m < n THEN m ELSE n

\* x.iter().zip(y.iter()).map(..).collect()
perlin_2d_parallel(self, x, y) ==
    Collect([i \in 1..IMin(Len(x), Len(y)) |->
                perlin_2d_parallel_closure(self, x[i], y[i])])

surflet3_attenuated(perm_table, corner, distance, attn) ==
    IF Bound(attn) /\ NGt(attn, Q(0))
    THEN NMul(NPowi(attn, 4), dot3(distance, gradient_get3(get3(perm_table, corner))))
    ELSE Q(0)

surflet3(perm_table, corner, distance) ==
    surflet3_attenuated(perm_table, corner, distance,
                        NSub(Q(1), dot3(distance, distance)))

\* SCALE_FACTOR 3.889_855_325_553_107_4 is not an element of Q(sqrt 2); it is
\* replaced by its convergent 35/9
SCALE_FACTOR_3D == Frac(35, 9)

\* a perlin_3d that returned the scaled sum as it is
perlin_3d_result_mut(f000, f100, f010, f110, f001, f101, f011, f111) ==
    CASE Bound(<<f000, f100, f010, f110, f001, f101, f011, f111>>) ->
        NMul(NAdd(NAdd(NAdd(NAdd(NAdd(NAdd(NAdd(f000, f100), f010), f110),
                                 f001), f101), f011), f111),
             SCALE_FACTOR_3D)

\* the result of perlin_3d from its eight surflets
perlin_3d_result(f000, f100, f010, f110, f001, f101, f011, f111) ==
    CASE Bound(<<f000, f100, f010, f110, f001, f101, f011, f111>>) ->
        clamp(NMul(NAdd(NAdd(NAdd(NAdd(NAdd(NAdd(NAdd(f000, f100), f010), f110),
                                        f001), f101), f011), f111),
                   SCALE_FACTOR_3D), Q(-1), Q(1))

\* the corner and the distance vector given to each surflet call of perlin_3d,
\* in the order of the calls
perlin_3d_surflets(point) ==
    LET floored == Collect([k \in 1..3 |-> NFloor(point[k])])
        near_corner == Collect([k \in 1..3 |-> floored[k].a])
        far_corner == Collect([k \in 1..3 |-> near_corner[k] + 1])
        near_distance == Collect([k \in 1..3 |-> NSub(point[k], floored[k])])
        far_distance == Collect([k \in 1..3 |-> NSub(near_distance[k], Q(1))])
    IN  <<
            <<<<near_corner[1], near_corner[2], near_corner[3]>>,
              <<near_distance[1], near_distance[2], near_distance[1]>>>>,
            <<<<far_corner[1], near_corner[2], near_corner[3]>>,
              <<far_distance[1], near_distance[2], near_distance[3]>>>>,
            <<<<near_corner[1], far_corner[2], near_corner[3]>>,
              <<near_distance[1], far_distance[2], near_distance[3]>>>>,
            <<<<far_corner[1], far_corner[2], near_corner[3]>>,
              <<far_distance[1], far_distance[2], near_distance[3]>>>>,
            <<<<near_corner[1], near_corner[2], far_corner[3]>>,
              <<near_distance[1], near_distance[2], far_distance[3]>>>>,
            <<<<far_corner[1], near_corner[2], far_corner[3]>>,
              <<far_distance[1], near_distance[2], far_distance[3]>>>>,
            <<<<near_corner[1], far_corner[2], far_corner[3]>>,
              <<near_distance[1], far_distance[2], far_distance[3]>>>>,
            <<<<far_corner[1], far_corner[2], far_corner[3]>>,
              <<far_distance[1], far_distance[2], far_distance[3]>>>> >>

\* the surflets of the calls, summed and scaled
perlin_3d_sum(perm_table, calls) ==
    perlin_3d_result(
        surflet3(perm_table, calls[1][1], calls[1][2]),
        surflet3(perm_table, calls[2][1], calls[2][2]),
        surflet3(perm_table, calls[3][1], calls[3][2]),
        surflet3(perm_table, calls[4][1], calls[4][2]),
        surflet3(perm_table, calls[5][1], calls[5][2]),
        surflet3(perm_table, calls[6][1], calls[6][2]),
        surflet3(perm_table, calls[7][1], calls[7][2]),
        surflet3(perm_table, calls[8][1], calls[8][2]))

perlin_3d(self, point) == perlin_3d_sum(self.perm_table, perlin_3d_surflets(point))

\* PermutationTable::get4: the fourth coordinate folded through the table
get4(perm_table, c) == perm_table[(get3(perm_table, c) + c[4]) % 256]

\* 1/sqrt(3), the length that makes a vector of three unit components a unit
\* vector, is not an element of Q(sqrt 2); it is replaced by its convergent 4/7
Diag4 == Frac(4, 7)

\* the 32 gradients of 4-space pointing at the edges of a tesseract: one
\* component is 0 and the other three are +-Diag4
gradient_get4(i) ==
    LET e == i % 32
        zero == 4 - (e \div 8)
        s1 == IF e % 2 = 0 THEN Diag4 ELSE NNeg(Diag4)
        s2 == IF (e \div 2) % 2 = 0 THEN Diag4 ELSE NNeg(Diag4)
        s3 == IF (e \div 4) % 2 = 0 THEN Diag4 ELSE NNeg(Diag4)
    IN  CASE zero = 4 -> <<s1, s2, s3, Q(0)>>
          [] zero = 3 -> <<s1, s2, Q(0), s3>>
          [] zero = 2 -> <<s1, Q(0), s2, s3>>
          [] zero = 1 -> <<Q(0), s1, s2, s3>>

dot4(a, b) == NAdd(dot3(a, b), NMul(a[4], b[4]))

surflet4_attenuated(perm_table, corner, distance, attn) ==
    IF Bound(attn) /\ NGt(attn, Q(0))
    THEN NMul(NPowi(attn, 4), dot4(distance, gradient_get4(get4(perm_table, corner))))
    ELSE Q(0)

surflet4(perm_table, corner, distance) ==
    surflet4_attenuated(perm_table, corner, distance,
                        NSub(Q(1), dot4(distance, distance)))

\* SCALE_FACTOR 4.424_369_240_215_691 is not an element of Q(sqrt 2); it is
\* replaced by its convergent 146/33
SCALE_FACTOR_4D == Frac(146, 33)

\* the result of perlin_4d from its sixteen surflets
perlin_4d_result(f0000, f1000, f0100, f1100, f0010, f1010, f0110, f1110, f0001, f1001, f0101, f1101, f0011, f1011, f0111, f1111) ==
    CASE Bound(<<f0000, f1000, f0100, f1100, f0010, f1010, f0110, f1110, f0001, f1001,
            f0101, f1101, f0011, f1011, f0111, f1111>>) ->
        clamp(NMul(NAdd(NAdd(NAdd(NAdd(NAdd(NAdd(NAdd(NAdd(NAdd(NAdd(NAdd(NAdd(NAdd(NAdd(NAdd(f0000,
                f1000), f0100), f1100), f0010), f1010), f0110), f1110), f0001), f1001), f0101),
                f1101), f0011), f1011), f0111), f1111),
                   SCALE_FACTOR_4D), Q(-1), Q(1))

\* the corner and the distance vector given to each surflet call of perlin_4d,
\* in the order of the calls
perlin_4d_surflets(point) ==
    LET floored == Collect([k \in 1..4 |-> NFloor(point[k])])
        near_corner == Collect([k \in 1..4 |-> floored[k].a])
        far_corner == Collect([k \in 1..4 |-> near_corner[k] + 1])
        near_distance == Collect([k \in 1..4 |-> NSub(point[k], floored[k])])
        far_distance == Collect([k \in 1..4 |-> NSub(near_distance[k], Q(1))])
    IN  <<
            <<<<near_corner[1], near_corner[2], near_corner[3], near_corner[4]>>,
              <<near_distance[1], near_distance[2], near_distance[3], near_distance[4]>>>>,
            <<<<far_corner[1], near_corner[2], near_corner[3], near_corner[4]>>,
              <<far_distance[1], near_distance[2], near_distance[3], near_distance[4]>>>>,
            <<<<near_corner[1], far_corner[2], near_corner[3], near_corner[4]>>,
              <<near_distance[1], far_distance[2], near_distance[3], near_distance[4]>>>>,
            <<<<far_corner[1], far_corner[2], near_corner[3], near_corner[4]>>,
              <<far_distance[1], far_distance[2], near_distance[3], near_distance[4]>>>>,
            <<<<near_corner[1], near_corner[2], far_corner[3], near_corner[4]>>,
              <<near_distance[1], near_distance[2], far_distance[3], near_distance[4]>>>>,
            <<<<far_corner[1], near_corner[2], far_corner[3], near_corner[4]>>,
              <<far_distance[1], near_distance[2], far_distance[3], near_distance[4]>>>>,
            <<<<near_corner[1], far_corner[2], far_corner[3], near_corner[4]>>,
              <<near_distance[1], far_distance[2], far_distance[3], near_distance[4]>>>>,
            <<<<far_corner[1], far_corner[2], far_corner[3], near_corner[4]>>,
              <<far_distance[1], far_distance[2], far_distance[3], near_distance[4]>>>>,
            <<<<near_corner[1], near_corner[2], near_corner[3], far_corner[4]>>,
              <<near_distance[1], near_distance[2], near_distance[3], far_distance[4]>>>>,
            <<<<far_corner[1], near_corner[2], near_corner[3], far_corner[4]>>,
              <<far_distance[1], near_distance[2], near_distance[3], far_distance[4]>>>>,
            <<<<near_corner[1], far_corner[2], near_corner[3], far_corner[4]>>,
              <<near_distance[1], far_distance[2], near_distance[3], far_distance[4]>>>>,
            <<<<far_corner[1], far_corner[2], near_corner[3], far_corner[4]>>,
              <<far_distance[1], far_distance[2], near_distance[3], far_distance[4]>>>>,
            <<<<near_corner[1], near_corner[2], far_corner[3], far_corner[4]>>,
              <<near_distance[1], near_distance[2], far_distance[3], far_distance[4]>>>>,
            <<<<far_corner[1], near_corner[2], far_corner[3], far_corner[4]>>,
              <<far_distance[1], near_distance[2], far_distance[3], far_distance[4]>>>>,
            <<<<near_corner[1], far_corner[2], far_corner[3], far_corner[4]>>,
              <<near_distance[1], far_distance[2], far_distance[3], far_distance[4]>>>>,
            <<<<far_corner[1], far_corner[2], far_corner[3], far_corner[4]>>,
              <<far_distance[1], far_distance[2], far_distance[3], far_distance[4]>>>> >>

\* the surflets of the calls, summed and scaled
perlin_4d_sum(perm_table, calls) ==
    perlin_4d_result(
        surflet4(perm_table, calls[1][1], calls[1][2]),
        surflet4(perm_table, calls[2][1], calls[2][2]),
        surflet4(perm_table, calls[3][1], calls[3][2]),
        surflet4(perm_table, calls[4][1], calls[4][2]),
        surflet4(perm_table, calls[5][1], calls[5][2]),
        surflet4(perm_table, calls[6][1], calls[6][2]),
        surflet4(perm_table, calls[7][1], calls[7][2]),
        surflet4(perm_table, calls[8][1], calls[8][2]),
        surflet4(perm_table, calls[9][1], calls[9][2]),
        surflet4(perm_table, calls[10][1], calls[10][2]),
        surflet4(perm_table, calls[11][1], calls[11][2]),
        surflet4(perm_table, calls[12][1], calls[12][2]),
        surflet4(perm_table, calls[13][1], calls[13][2]),
        surflet4(perm_table, calls[14][1], calls[14][2]),
        surflet4(perm_table, calls[15][1], calls[15][2]),
        surflet4(perm_table, calls[16][1], calls[16][2]))

perlin_4d(self, point) == perlin_4d_sum(self.perm_table, perlin_4d_surflets(point))

\* NoiseFn::get for Perlin
Perlin_get(self, point) ==
    CASE Len(point) = 2 -> perlin_2d_surflet(self, point)
      [] Len(point) = 3 -> perlin_3d(self, point)
      [] Len(point) = 4 -> perlin_4d(self, point)

inner_process_2d_field_serial(self, coordinates) ==
    Collect([i \in 1..Len(coordinates) |-> perlin_2d(self, coordinates[i])])

process_2d_field_serial(self, f) ==
    set_values(f, inner_process_2d_field_serial(self, f.coordinates))

inner_process_2d_field_parallel_2(self, coordinates) ==
    LET x == Collect([i \in 1..Len(coordinates) |-> coordinates[i][1]])
        y == Collect([i \in 1..Len(coordinates) |-> coordinates[i][2]])
    IN  perlin_2d_parallel(self, x, y)

process_2d_field_parallel(self, f) ==
    set_values(f, inner_process_2d_field_parallel_2(self, f.coordinates))

inner_process_3d_field_serial(self, coordinates) ==
    Collect([i \in 1..Len(coordinates) |-> perlin_3d(self, coordinates[i])])

process_3d_field_serial(self, f) ==
    set_values(f, inner_process_3d_field_serial(self, f.coordinates))

(***************************************************************************)
(* Data-parallel map.  `par_iter().map(g).collect()` is a fork-join over    *)
(* the index range whose result holds g of element i in slot i; the worker  *)
(* level of it is the specification SpecPar below.                          *)
(***************************************************************************)
ParMapSeq(g(_), s) == Collect([i \in 1..Len(s) |-> g(s[i])])

\* iter().zip(other.iter()): as long as the shorter of the two
Zip2(op(_, _), s, t) ==
    Collect([i \in 1..IMin(Len(s), Len(t)) |-> op(s[i], t[i])])

inner_process_3d_field_parallel(self, coordinates) ==
    LET g(point) == perlin_3d(self, point)
    IN  ParMapSeq(g, coordinates)

process_3d_field_parallel(self, f) ==
    set_values(f, inner_process_3d_field_parallel(self, f.coordinates))

\* impl NoiseFieldFn<NoiseField2D> / <NoiseField3D> for Perlin
Perlin_process_field(self, f) ==
    IF f.dim = 2 THEN process_2d_field_parallel(self, f)
    ELSE process_3d_field_parallel(self, f)

(***************************************************************************)
(* More helpers of the crate                                                *)
(***************************************************************************)
\* value.abs().mul_add(n, -1.0)
scale_shift(value, n) == NSub(NMul(NAbs(value), n), Q(1))

\* a + x * (b - a)
linear(a, b, x) == NAdd(NMul(x, NSub(b, a)), a)

\* 3t^2 - 2t^3
s_curve3(t) == NMul(NMul(t, t), NSub(Q(3), NMul(Q(2), t)))

\* f64::floor of any modelled number: the integer n with n <= x < n+1
NFloorAny(x) ==
    LET est == (x.a * 100 + x.b * 141) \div (x.d * 100)
    IN  Q(CHOOSE n \in (est - 2)..(est + 2) : NLe(Q(n), x) /\ NLt(x, Q(n + 1)))

\* the integer square root of n when n is a perfect square, else -1
ISqrt(n) == IF \E r \in 0..n : r * r = n THEN CHOOSE r \in 0..n : r * r = n ELSE -1

\* f64::sqrt of a non-negative rational whose root lies in Q(sqrt 2)
NSqrt(x) ==
    LET n == x.a * x.d
    IN  CASE ISqrt(n) >= 0 -> Num(ISqrt(n), 0, x.d)
          [] ISqrt(n) < 0 /\ n % 2 = 0 /\ ISqrt(n \div 2) >= 0 -> Num(0, ISqrt(n \div 2), x.d)

\* cos(pi * x) for x a multiple of 1/4 or of 1/3
cos_pi(x) ==
    LET ok == x.b = 0 /\ 12 % x.d = 0
        q == (x.a * (12 \div x.d)) % 24
    IN  CASE ok /\ q \in {0} -> Q(1)
          [] ok /\ q \in {12} -> Q(-1)
          [] ok /\ q \in {6, 18} -> Q(0)
          [] ok /\ q \in {3, 21} -> Diag
          [] ok /\ q \in {9, 15} -> NNeg(Diag)
          [] ok /\ q \in {4, 20} -> Frac(1, 2)
          [] ok /\ q \in {8, 16} -> Frac(-1, 2)

\* f64::powf for an integer exponent
NPowf(x, y) ==
    CASE y.b = 0 /\ y.d = 1 /\ y.a >= 0 -> NPowi(x, y.a)
      [] y.b = 0 /\ y.d = 1 /\ y.a < 0 /\ NSign(x) # 0 -> NInv(NPowi(x, -y.a))

(***************************************************************************)
(* Generators  (src/src/noise_fns/generators)                               *)
(***************************************************************************)
Constant_process_field(self, f) ==
    [f EXCEPT !.values = Collect([i \in 1..Len(f.values) |-> self.value])]

calculate_cylinders(point, frequency) ==
    LET x == NMul(point[1], frequency)
        y == NMul(point[2], frequency)
        dist_from_center == NSqrt(NAdd(NPowi(x, 2), NPowi(y, 2)))
        dist_from_smaller_sphere == NSub(dist_from_center, NFloorAny(dist_from_center))
        dist_from_larger_sphere == NSub(Q(1), dist_from_smaller_sphere)
        nearest_dist == NMin(dist_from_smaller_sphere, dist_from_larger_sphere)
    IN  NSub(Q(1), NMul(nearest_dist, Q(4)))

\* the closure of the 2D process_field: cos(point[0] * frequency * PI)
cylinders_2d_closure(self, point) == cos_pi(NMul(point[1], self.frequency))

Cylinders_process_field(self, f) ==
    IF f.dim = 2
    THEN LET g(point) == cylinders_2d_closure(self, point)
         IN  [f EXCEPT !.values = ParMapSeq(g, f.coordinates)]
    ELSE LET g(point) == calculate_cylinders(point, self.frequency)
         IN  [f EXCEPT !.values = MapSeq(g, f.coordinates)]

\* one Perlin source per octave, seeded seed + x
build_sources(seed, octaves) ==
    Collect([x \in 1..octaves |-> Perlin_set_seed(Perlin_new, seed + (x - 1))])

\* spectral_weights[i] = (frequency * lacunarity^i)^(-1)
calc_spectral_weights(self) ==
    [self EXCEPT !.spectral_weights =
        Collect([i \in 1..self.octaves |->
                    NInv(NMul(self.frequency, NPowi(self.lacunarity, i - 1)))])]

\* the RidgedMulti that new() and the setters leave for these parameters
RidgedMulti_with(octaves, frequency, lacunarity, gain, seed) ==
    calc_spectral_weights(
        [octaves |-> octaves, frequency |-> frequency, lacunarity |-> lacunarity,
         gain |-> gain, seed |-> seed, sources |-> build_sources(seed, octaves),
         spectral_weights |-> Vec(Q(0), octaves)])

\* the octave fields: source k evaluates the field scaled by lacunarity^k
RidgedMulti_fields(self, f) ==
    Collect([k \in 1..Len(self.sources) |->
                Perlin_process_field(self.sources[k],
                    scale_coordinates(f, NPowi(self.lacunarity, k - 1)))])

\* the ridged, squared signal of a source value
Ridge(v) == LET s == NSub(Q(1), NAbs(v)) IN NMul(s, s)

\* The loop over the octaves 1..octaves-1 of the process_field closure.  The
\* `let mut signal` inside the loop declares a new variable, so the `signal`
\* read by `weight = signal * self.gain` is the one computed before the loop.
\* acc.result is `result`; acc.weights collects the value of `weight` in
\* each iteration.
RECURSIVE RidgedMulti_octave_loop(_, _, _, _, _, _)
RidgedMulti_octave_step(self, fields, idx, signal, acc, current_octave, weight) ==
    RidgedMulti_octave_loop(self, fields, idx, signal,
        [result |-> NAdd(acc.result,
                         NMul(NMul(Ridge(fields[current_octave + 1].values[idx]), weight),
                              self.spectral_weights[current_octave + 1])),
         weights |-> Append(acc.weights, weight)],
        current_octave + 1)

RidgedMulti_octave_loop(self, fields, idx, signal, acc, current_octave) ==
    IF current_octave >= self.octaves THEN acc
    ELSE RidgedMulti_octave_step(self, fields, idx, signal, acc, current_octave,
                                 clamp(NMul(signal, self.gain), Q(0), Q(1)))

\* the run of the loop for output index idx (1-based), from the first
\* octave's signal
RidgedMulti_octaves(self, fields, idx, signal) ==
    RidgedMulti_octave_loop(self, fields, idx, signal,
                            [result |-> signal, weights |-> <<>>], 1)

\* the closure of process_field for output index idx (1-based)
RidgedMulti_closure(self, fields, idx) ==
    LET result == RidgedMulti_octaves(self, fields, idx, Ridge(fields[1].values[idx])).result
        scale == NSub(Q(2), NPowi(Frac(1, 2), self.octaves - 1))
    IN  scale_shift(result, NDiv(Q(2), scale))

\* out.values = field.coordinates().par_iter().enumerate().map(closure).collect(),
\* given the octave fields computed before it
RidgedMulti_collect(self, f, fields) ==
    LET g(idx) == RidgedMulti_closure(self, fields, idx)
    IN  [f EXCEPT !.values = ParMapSeq(g, Collect([i \in 1..Len(f.coordinates) |-> i]))]

\* a process_field that returned the field it handed to the last source
RidgedMulti_process_field_mut(self, f) ==
    RidgedMulti_collect(self, scale_coordinates(f, NPowi(self.lacunarity, self.octaves - 1)),
                        RidgedMulti_fields(self, f))

\* let mut out = field.clone(); the octave fields; then the parallel collect
RidgedMulti_process_field(self, f) ==
    RidgedMulti_collect(self, f, RidgedMulti_fields(self, f))

\* math::mul2 / mul3: the point with every component times the scalar
math_mul(point, scalar) == [k \in 1..Len(point) |-> NMul(point[k], scalar)]

\* The loop of get over the octaves 0..octaves-1.  acc.result is `result`;
\* acc.weights collects the value of `weight` that each octave's signal is
\* multiplied by.
RECURSIVE RidgedMulti_get_loop(_, _, _, _, _)
RidgedMulti_get_step(self, point, x, weight, acc, signal) ==
    RidgedMulti_get_loop(self, math_mul(point, self.lacunarity), x + 1,
        clamp(NMul(signal, self.gain), Q(0), Q(1)),
        [result |-> NAdd(acc.result, signal), weights |-> Append(acc.weights, weight)])

RidgedMulti_get_loop(self, point, x, weight, acc) ==
    IF x >= self.octaves THEN acc
    ELSE RidgedMulti_get_step(self, point, x, weight, acc,
                              NMul(Ridge(Perlin_get(self.sources[x + 1], point)), weight))

RidgedMulti_get_octaves(self, point) ==
    RidgedMulti_get_loop(self, math_mul(point, self.frequency), 0, Q(1),
                         [result |-> Q(0), weights |-> <<>>])

\* impl NoiseFn<[f64; 2]> / <[f64; 3]> for RidgedMulti
RidgedMulti_get(self, point) ==
    scale_shift(RidgedMulti_get_octaves(self, point).result,
                NDiv(Q(2), NSub(Q(2), NPowi(Frac(1, 2), self.octaves - 1))))

(***************************************************************************)
(* Combinators  (src/src/noise_fns/combiners, modifiers, selectors) and     *)
(* process_field over a tree of noise functions.  A tree is a record with   *)
(* a kind, its parameters and its sources.                                  *)
(***************************************************************************)
\* a closure that did not normalise the value to [0, 1] first
Exponent_closure_mut(self, v) ==
    scale_shift(NPowf(NAbs(v), self.exponent), Q(2))

Exponent_closure(self, v) ==
    LET value == NPowf(NAbs(NDiv(NAdd(v, Q(1)), Q(2))), self.exponent)
    IN  scale_shift(value, Q(2))

\* a closure that selects source2 on the closed selection range, as the
\* commented-out get() of Select does
Select_closure_mut(self, control_value, lower, upper) ==
    IF NLt(control_value, self.bounds[1]) \/ NGt(control_value, self.bounds[2])
    THEN lower ELSE upper

\* a Select whose falloff arms interpolate with the plain ratio instead of
\* its cubic smoothstep
Select_closure_ramp(self, control_value, lower, upper) ==
    LET lower_bound == self.bounds[1]
        upper_bound == self.bounds[2]
        alpha(lower_curve, upper_curve) ==
            NDiv(NSub(control_value, lower_curve), NSub(upper_curve, lower_curve))
    IN  IF NGt(self.falloff, Q(0))
        THEN IF NLt(control_value, NSub(lower_bound, self.falloff)) THEN lower
             ELSE IF NLt(control_value, NAdd(lower_bound, self.falloff))
             THEN linear(lower, upper,
                         alpha(NSub(lower_bound, self.falloff),
                               NAdd(lower_bound, self.falloff)))
             ELSE IF NLt(control_value, NSub(upper_bound, self.falloff)) THEN upper
             ELSE IF NLt(control_value, NAdd(upper_bound, self.falloff))
             THEN linear(upper, lower,
                         alpha(NSub(upper_bound, self.falloff),
                               NAdd(upper_bound, self.falloff)))
             ELSE lower
        ELSE IF NGt(control_value, lower_bound) /\ NLt(control_value, upper_bound)
             THEN upper
             ELSE lower

Select_closure(self, control_value, lower, upper) ==
    LET lower_bound == self.bounds[1]
        upper_bound == self.bounds[2]
        alpha(lower_curve, upper_curve) ==
            s_curve3(NDiv(NSub(control_value, lower_curve),
                          NSub(upper_curve, lower_curve)))
    IN  IF NGt(self.falloff, Q(0))
        THEN IF NLt(control_value, NSub(lower_bound, self.falloff)) THEN lower
             ELSE IF NLt(control_value, NAdd(lower_bound, self.falloff))
             THEN linear(lower, upper,
                         alpha(NSub(lower_bound, self.falloff),
                               NAdd(lower_bound, self.falloff)))
             ELSE IF NLt(control_value, NSub(upper_bound, self.falloff)) THEN upper
             ELSE IF NLt(control_value, NAdd(upper_bound, self.falloff))
             THEN linear(upper, lower,
                         alpha(NSub(upper_bound, self.falloff),
                               NAdd(upper_bound, self.falloff)))
             ELSE lower
        ELSE IF NGt(control_value, lower_bound) /\ NLt(control_value, upper_bound)
             THEN upper
             ELSE lower

\* process_field of Add, Multiply, Max and Power, given the fields `out` and
\* `field2` that the two sources returned
Combiner_process_field(self, out, field2) ==
    LET op(value1, value2) ==
            CASE self.kind = "Add" -> NAdd(value1, value2)
              [] self.kind = "Multiply" -> NMul(value1, value2)
              [] self.kind = "Max" -> NMax(value1, value2)
              [] self.kind = "Power" -> NPowf(value1, value2)
    IN  [out EXCEPT !.values = Zip2(op, out.values, field2.values)]

\* process_field of Min: the 3D implementation zips the values of the input
\* field with those of the second source
Min_process_field(self, f, out, field2) ==
    IF f.dim = 2
    THEN [out EXCEPT !.values = Zip2(NMin, out.values, field2.values)]
    ELSE [out EXCEPT !.values = Zip2(NMin, f.values, field2.values)]

\* an Abs that kept the sign of its source and a Negate that lost it
Modifier_process_field_mut(self, out) ==
    [out EXCEPT !.values =
        Collect([i \in 1..Len(out.values) |->
                    IF self.kind = "Abs" THEN out.values[i]
                    ELSE NNeg(NAbs(out.values[i]))])]

\* process_field of Abs, Negate, Clamp, ScaleBias and Exponent, given the
\* field `out` that the source returned
Modifier_process_field(self, out) ==
    LET g(value) ==
            CASE self.kind = "Abs" -> NAbs(value)
              [] self.kind = "Negate" -> NNeg(value)
              [] self.kind = "Clamp" -> clamp(value, self.bounds[1], self.bounds[2])
              [] self.kind = "ScaleBias" -> NAdd(NMul(value, self.scale), self.bias)
              [] self.kind = "Exponent" -> Exponent_closure(self, value)
    IN  IF self.kind \in {"Abs", "Negate"}
        THEN [out EXCEPT !.values = ParMapSeq(g, out.values)]
        ELSE [out EXCEPT !.values = MapSeq(g, out.values)]

\* a Blend that clamped the control value to [0, 1] before it interpolated
Blend_process_field_mut(self, f, control, lower, upper) ==
    [f EXCEPT !.values =
        Collect([i \in 1..Len(control.values) |->
                    linear(lower.values[i], upper.values[i],
                           clamp(control.values[i], Q(0), Q(1)))])]

\* process_field of Blend, given the fields that its three sources returned
Blend_process_field(self, f, control, lower, upper) ==
    LET n == IMin(Len(control.values), IMin(Len(lower.values), Len(upper.values)))
    IN  [f EXCEPT !.values =
            Collect([i \in 1..n |->
                        linear(lower.values[i], upper.values[i], control.values[i])])]

\* process_field of Select, given the fields that its three sources returned
Select_process_field(self, f, control, source1, source2) ==
    LET n == IMin(Len(control.values), IMin(Len(source1.values), Len(source2.values)))
    IN  [f EXCEPT !.values =
            Collect([i \in 1..n |->
                        Select_closure(self, control.values[i],
                                       source1.values[i], source2.values[i])])]

\* NoiseFieldFn::process_field, dispatched on the type of the function; a
\* function with sources first has each source process the field
RECURSIVE process_field(_, _)
process_field(self, f) ==
    CASE self.kind = "Perlin" -> Perlin_process_field(self.k, f)
      [] self.kind = "Constant" -> Constant_process_field(self, f)
      [] self.kind = "Cylinders" -> Cylinders_process_field(self, f)
      [] self.kind = "RidgedMulti" -> RidgedMulti_process_field(self.r, f)
      [] self.kind \in {"Add", "Multiply", "Max", "Power"} ->
            Combiner_process_field(self, process_field(self.source1, f),
                                   process_field(self.source2, f))
      [] self.kind = "Min" ->
            Min_process_field(self, f, process_field(self.source1, f),
                              process_field(self.source2, f))
      [] self.kind \in {"Abs", "Negate", "Clamp", "ScaleBias", "Exponent"} ->
            Modifier_process_field(self, process_field(self.source, f))
      [] self.kind = "Blend" ->
            Blend_process_field(self, f, process_field(self.control, f),
                                process_field(self.source1, f),
                                process_field(self.source2, f))
      [] self.kind = "Select" ->
            Select_process_field(self, f, process_field(self.control, f),
                                 process_field(self.source1, f),
                                 process_field(self.source2, f))

(***************************************************************************)
(* SpecEval: a client that holds a built field composes a tree of noise     *)
(* functions with the constructors and evaluates it with process_field.     *)
(* The fields lie on the half lattice (every coordinate a multiple of 1/2), *)
(* which keeps the exact values of every kernel small.                      *)
(***************************************************************************)
\* largest seed given to a kernel
MaxSeed == 1

\* largest number of modifiers, combiners and selectors stacked on a generator
MaxNodes == 1

\* bounds (lo, hi) that put the n points of an axis at -1/2, 0, 1/2, ...
HalfBounds(n) == <<Frac(-1, 2), Frac(n - 1, 2)>>

EvalFields ==
    {NoiseField2D_build_field(NoiseField2D_new(MaxDim2, 2).f,
                              HalfBounds(MaxDim2), <<Q(0), Q(1)>>).f,
     NoiseField3D_build_field(NoiseField3D_new(MaxDim3, 1, 2).f,
                              HalfBounds(MaxDim3), <<Q(0), Q(1)>>, <<Q(0), Q(1)>>).f,
     NoiseField3D_build_field(NoiseField3D_new(1, 2, 2).f,
                              <<Q(0), Q(1)>>, <<Q(0), Q(1)>>, <<Q(0), Q(1)>>).f,
     NoiseField2D_initialize}

Perlin_with(seed) == [kind |-> "Perlin", k |-> Perlin_set_seed(Perlin_new, seed)]

\* Cylinders::new()
Cylinders_new == [kind |-> "Cylinders", frequency |-> Q(1)]

\* the 3D Cylinders takes sqrt(x^2 + y^2): exact here when x or y is 0
CylindersExact(f) ==
    f.dim = 3 => \A i \in 1..Len(f.coordinates) :
                    NSign(f.coordinates[i][1]) = 0 \/ NSign(f.coordinates[i][2]) = 0

\* the kinds of generator a client can construct for the field f
GeneratorKinds(f) ==
    {"Perlin", "RidgedMulti"}
    \cup (IF CylindersExact(f) THEN {"Cylinders"} ELSE {})
    \cup (IF f.dim = 2 THEN {"Constant"} ELSE {})

\* the values given to Constant::new
ConstantInputs == {Frac(1, 2), Q(2), Q(-2)}

\* what a client chooses when it constructs a generator: the value of a
\* Constant, the seed of the others
GeneratorInputs(kind) == IF kind = "Constant" THEN ConstantInputs ELSE 0..MaxSeed

\* X::new() followed by the setters of X; Constant::new(input)
Generator_new(kind, input) ==
    CASE kind = "Perlin" -> Perlin_with(input)
      [] kind = "RidgedMulti" ->
            [kind |-> kind, r |-> RidgedMulti_with(2, Q(1), Q(2), Q(2), input)]
      [] kind = "Cylinders" -> Cylinders_new
      [] kind = "Constant" -> [kind |-> kind, value |-> input]

ModifierKinds == {"Abs", "Negate", "Clamp", "Exponent", "ScaleBias"}

Exponent_new(source) == [kind |-> "Exponent", source |-> source, exponent |-> Q(1)]

Exponent_set_exponent(self, exponent) ==
    [kind |-> self.kind, source |-> self.source, exponent |-> exponent]

Clamp_new(source) ==
    [kind |-> "Clamp", source |-> source, bounds |-> <<Q(-1), Q(1)>>]

\* a setter that rebuilt the bounds from the default upper bound
Clamp_set_lower_bound_mut(self, lower_bound) ==
    [kind |-> self.kind, source |-> self.source, bounds |-> <<lower_bound, Q(1)>>]

Clamp_set_lower_bound(self, lower_bound) ==
    [kind |-> self.kind, source |-> self.source,
     bounds |-> <<lower_bound, self.bounds[2]>>]

Clamp_set_upper_bound(self, upper_bound) ==
    [kind |-> self.kind, source |-> self.source,
     bounds |-> <<self.bounds[1], upper_bound>>]

Clamp_set_bounds(self, lower_bound, upper_bound) ==
    [kind |-> self.kind, source |-> self.source,
     bounds |-> <<lower_bound, upper_bound>>]

\* X::new(source) followed by the setters of X
Modifier_new(kind, source) ==
    CASE kind \in {"Abs", "Negate"} -> [kind |-> kind, source |-> source]
      [] kind = "Clamp" -> Clamp_new(source)
      [] kind = "Exponent" -> Exponent_new(source)
      [] kind = "ScaleBias" ->
            [kind |-> kind, source |-> source, scale |-> Q(2), bias |-> Frac(-1, 2)]

CombinerKinds == {"Add", "Multiply", "Min", "Max", "Power"}

\* a source whose value is n at every point
Flat(n) ==
    [kind |-> "ScaleBias", source |-> Perlin_with(0), scale |-> Q(0), bias |-> Q(n)]

\* the second source given to a combiner, itself a small tree; powf is exact
\* for the exponent 2
Operand(kind) ==
    CASE kind = "Add" -> Modifier_new("Negate", Perlin_with(MaxSeed))
      [] kind = "Multiply" -> Perlin_with(MaxSeed)
      [] kind = "Min" -> Modifier_new("Abs", Perlin_with(MaxSeed))
      [] kind = "Max" ->
            Clamp_set_bounds(Clamp_new(Perlin_with(MaxSeed)), Frac(-1, 2), Frac(1, 2))
      [] kind = "Power" -> Flat(2)

Combiner_new(kind, source1, source2) ==
    [kind |-> kind, source1 |-> source1, source2 |-> source2]

FalloffInputs == {Q(0), Frac(1, 4)}

Blend_new(source1, source2, control) ==
    [kind |-> "Blend", source1 |-> source1, source2 |-> source2, control |-> control]

\* Select::new(..).set_falloff(falloff); the bounds stay (0, 1)
Select_new(source1, source2, control, falloff) ==
    [kind |-> "Select", source1 |-> source1, source2 |-> source2,
     control |-> control, bounds |-> <<Q(0), Q(1)>>, falloff |-> falloff]

EvalInit ==
    /\ field \in EvalFields
    /\ outf = NoField
    /\ retv = <<>>
    /\ last = Op("build_field", <<>>, "ok", NoField)
    /\ nops = 0
    /\ EvalVarsInit
    /\ ParVarsInit

\* The arithmetic of the model is exact while numerators and denominators fit
\* the integers of the checker.  A node that multiplies its sources (Multiply,
\* Power, Exponent, Blend, Select with a falloff) is therefore stacked on a
\* tree whose values on the field are (a + b sqrt 2)/d with d, |a|, |b| <= Small.
Small == 16

SmallValued(f) ==
    \A i \in 1..Len(f.values) :
        /\ f.values[i].d <= Small
        /\ IAbs(f.values[i].a) <= Small
        /\ IAbs(f.values[i].b) <= Small

MayMultiply == SmallValued(process_field(tree, field))

\* a constructor call: the new function borrows the tree built so far
Construct(t) ==
    /\ last.op # "process_field"
    /\ tree' = t
    /\ last' = Op("new", <<t.kind>>, "ok", tree)
    /\ UNCHANGED <<field, outf, retv, kern, ser, par, job, slots, wk>>

NewGenerator ==
    /\ tree = NoTree
    /\ \E kind \in GeneratorKinds(field) : \E input \in GeneratorInputs(kind) :
          Construct(Generator_new(kind, input))
    /\ UNCHANGED nops

NewModifier ==
    /\ tree # NoTree /\ nops < MaxNodes
    /\ \E kind \in ModifierKinds :
          /\ kind = "Exponent" => MayMultiply
          /\ Construct(Modifier_new(kind, tree))
    /\ nops' = nops + 1

NewCombiner ==
    /\ tree # NoTree /\ nops < MaxNodes
    /\ \E kind \in CombinerKinds :
          /\ kind \in {"Multiply", "Power"} => MayMultiply
          /\ Construct(Combiner_new(kind, tree, Operand(kind)))
    /\ nops' = nops + 1

NewSelector ==
    /\ tree # NoTree /\ nops < MaxNodes
    /\ \/ /\ MayMultiply
          /\ \E role \in {"source1", "control"} :
                Construct(IF role = "source1"
                          THEN Blend_new(tree, Perlin_with(0), Perlin_with(MaxSeed))
                          ELSE Blend_new(Perlin_with(0), Flat(1), tree))
       \/ \E falloff \in FalloffInputs :
             /\ NGt(falloff, Q(0)) => MayMultiply
             /\ Construct(Select_new(Perlin_with(0), Flat(1), tree, falloff))
    /\ nops' = nops + 1

\* the bounds given to the setters of Clamp; every pair has lower <= upper
LowerBoundInputs == {Frac(-1, 2), Q(0)}

UpperBoundInputs == {Q(0), Frac(1, 2)}

\* a setter of the function built last: it consumes the function and returns
\* the changed one
Configure(op, args, t) ==
    /\ last.op # "process_field"
    /\ tree' = t
    /\ last' = Op(op, args, "ok", tree)
    /\ UNCHANGED <<field, outf, retv, nops, kern, ser, par, job, slots, wk>>

ClampSetLowerBound ==
    /\ tree.kind = "Clamp"
    /\ \E lower_bound \in LowerBoundInputs :
          Configure("set_lower_bound", <<lower_bound>>,
                    Clamp_set_lower_bound(tree, lower_bound))

ClampSetUpperBound ==
    /\ tree.kind = "Clamp"
    /\ \E upper_bound \in UpperBoundInputs :
          Configure("set_upper_bound", <<upper_bound>>,
                    Clamp_set_upper_bound(tree, upper_bound))

ClampSetBounds ==
    /\ tree.kind = "Clamp"
    /\ \E lower_bound \in LowerBoundInputs, upper_bound \in UpperBoundInputs :
          Configure("set_bounds", <<lower_bound, upper_bound>>,
                    Clamp_set_bounds(tree, lower_bound, upper_bound))

\* the exponents given to set_exponent; powf is exact for an integer exponent
ExponentInputs == {Q(2)}

ExponentSetExponent ==
    /\ tree.kind = "Exponent"
    /\ \E exponent \in ExponentInputs :
          Configure("set_exponent", <<exponent>>, Exponent_set_exponent(tree, exponent))

\* tree.process_field(&field): the field is borrowed immutably
ProcessField ==
    /\ tree # NoTree /\ last.op # "process_field"
    /\ outf' = process_field(tree, field)
    /\ last' = Op("process_field", <<>>, "ok", field)
    /\ UNCHANGED <<field, retv, nops, tree, kern, ser, par, job, slots, wk>>

EvalNext ==
    \/ NewGenerator
    \/ NewModifier
    \/ NewCombiner
    \/ NewSelector
    \/ ClampSetLowerBound
    \/ ClampSetUpperBound
    \/ ClampSetBounds
    \/ ExponentSetExponent
    \/ ProcessField

SpecEval == EvalInit /\ [][EvalNext]_vars

(***************************************************************************)
(* SpecPar: the execution strategies of the batched evaluation.  The serial *)
(* paths run as one step.  `par_iter().map(g).collect()` runs at the level  *)
(* of its workers: the call forks, every idle worker takes any element not  *)
(* yet taken, applies the closure and writes the result into the collected  *)
(* vector, and the call joins when every element has been written.          *)
(***************************************************************************)
\* number of workers of the thread pool
MaxWorkers == 2

\* largest number of cells of a field evaluated in parallel
MaxParCells == 4

ParFields ==
    {NoiseField2D_build_field(NoiseField2D_new(MaxParCells \div 2, 2).f,
                              HalfBounds(MaxParCells \div 2), <<Q(0), Q(1)>>).f,
     NoiseField2D_build_field(NoiseField2D_new(MaxParCells - 1, 1).f,
                              <<Q(-1), Q(1)>>, <<Frac(1, 2), Frac(3, 2)>>).f,
     NoiseField3D_build_field(NoiseField3D_new(MaxParCells \div 2, 1, 2).f,
                              HalfBounds(MaxParCells \div 2),
                              <<Q(0), Q(1)>>, <<Q(0), Q(1)>>).f}

\* every coordinate of f is a multiple of 1/2
HalfLattice(f) ==
    \A i \in 1..Len(f.coordinates) : \A k \in 1..f.dim :
        f.coordinates[i][k].b = 0 /\ f.coordinates[i][k].d <= 2

\* the data-parallel evaluations of the crate that apply to the field f
ParKinds(f) ==
    {"abs", "negate"}
    \cup (IF f.dim = 3 THEN {"perlin_3d"} ELSE {"cylinders_2d"})
    \cup (IF HalfLattice(f) THEN {"ridged_multi"} ELSE {})

\* the RidgedMulti evaluated in SpecPar
ParRidged == RidgedMulti_with(2, Q(1), Q(2), Q(2), kern.seed)

\* the noise function whose process_field runs the parallel map `kind`
ParTree(kind) ==
    CASE kind = "perlin_3d" -> [kind |-> "Perlin", k |-> kern]
      [] kind = "cylinders_2d" -> Cylinders_new
      [] kind = "ridged_multi" -> [kind |-> "RidgedMulti", r |-> ParRidged]
      [] kind = "abs" -> Modifier_new("Abs", [kind |-> "Perlin", k |-> kern])
      [] kind = "negate" -> Modifier_new("Negate", [kind |-> "Perlin", k |-> kern])

\* the sequence that par_iter() runs over
ParInput(kind) ==
    CASE kind \in {"perlin_3d", "cylinders_2d"} -> field.coordinates
      [] kind = "ridged_multi" -> Collect([i \in 1..Len(field.coordinates) |-> i])
      [] kind \in {"abs", "negate"} -> Perlin_process_field(kern, field).values

\* what the closure given to map() captures besides self: the octave fields
\* that RidgedMulti computes before par_iter()
ParEnv(kind) ==
    IF kind = "ridged_multi" THEN RidgedMulti_fields(ParRidged, field) ELSE <<>>

\* the closure given to map()
ParClosure(kind, env, item) ==
    CASE kind = "perlin_3d" -> perlin_3d(kern, item)
      [] kind = "cylinders_2d" -> cylinders_2d_closure(Cylinders_new, item)
      [] kind = "ridged_multi" -> RidgedMulti_closure(ParRidged, env, item)
      [] kind = "abs" -> NAbs(item)
      [] kind = "negate" -> NNeg(item)

Idle == [i |-> 0, item |-> 0]

EmptySlot == [n |-> 0, src |-> 0, v |-> Q(0)]

Written == {i \in 1..Len(slots) : slots[i].n > 0}

\* a collect that appended the results as they complete
collect_slot_mut(w) == Cardinality(Written) + 1

\* collect() of an indexed parallel iterator: the result of the element at
\* position i is written at position i of the vector
collect_slot(w) == wk[w].i

ParInit ==
    /\ field \in ParFields
    /\ kern \in {Perlin_set_seed(Perlin_new, seed) : seed \in 0..MaxSeed}
    /\ outf = NoField
    /\ retv = <<>>
    /\ last = Op("build_field", <<>>, "ok", NoField)
    /\ nops = 0
    /\ tree = NoTree
    /\ ser = NoResult /\ par = NoResult
    /\ job = NoJob /\ slots = <<>>
    /\ wk = [w \in 1..MaxWorkers |-> Idle]

\* process_2d_field_serial / process_3d_field_serial
Serial ==
    /\ job.kind = "none" /\ ~ser.done
    /\ ser' = [done |-> TRUE,
               values |-> IF field.dim = 2
                          THEN process_2d_field_serial(kern, field).values
                          ELSE process_3d_field_serial(kern, field).values]
    /\ UNCHANGED <<field, outf, retv, last, nops, tree, kern, par, job, slots, wk>>

\* process_2d_field_parallel, which maps over the zipped slices in one thread
Parallel2D ==
    /\ job.kind = "none" /\ ~par.done /\ field.dim = 2
    /\ par' = [done |-> TRUE, values |-> process_2d_field_parallel(kern, field).values]
    /\ UNCHANGED <<field, outf, retv, last, nops, tree, kern, ser, job, slots, wk>>

Fork ==
    /\ job.kind = "none"
    /\ \E kind \in ParKinds(field) :
          LET input == ParInput(kind)
          IN  /\ job' = [kind |-> kind, input |-> input, env |-> ParEnv(kind),
                         pending |-> 1..Len(input), done |-> FALSE]
              /\ slots' = [i \in 1..Len(input) |-> EmptySlot]
              /\ last' = Op("par_iter", <<kind>>, "ok", field)
    /\ UNCHANGED <<field, outf, retv, nops, tree, kern, ser, par, wk>>

Take ==
    /\ job.kind # "none"
    /\ \E w \in 1..MaxWorkers, i \in job.pending :
          /\ wk[w].i = 0
          /\ wk' = [wk EXCEPT ![w] = [i |-> i, item |-> job.input[i]]]
          /\ job' = [job EXCEPT !.pending = @ \ {i}]
    /\ UNCHANGED <<field, outf, retv, last, nops, tree, kern, ser, par, slots>>

Write ==
    /\ \E w \in 1..MaxWorkers :
          /\ wk[w].i # 0
          /\ slots' = [slots EXCEPT ![collect_slot(w)] =
                          [n |-> @.n + 1, src |-> wk[w].i,
                           v |-> ParClosure(job.kind, job.env, wk[w].item)]]
          /\ wk' = [wk EXCEPT ![w] = Idle]
    /\ UNCHANGED <<field, outf, retv, last, nops, tree, kern, ser, par, job>>

\* every element was taken and every worker is done: out.set_values(collected)
Join ==
    /\ job.kind # "none" /\ ~job.done /\ job.pending = {}
    /\ \A w \in 1..MaxWorkers : wk[w].i = 0
    /\ LET values == [i \in 1..Len(slots) |-> slots[i].v]
       IN  /\ outf' = set_values(field, values)
           /\ par' = IF job.kind = "perlin_3d"
                     THEN [done |-> TRUE, values |-> values] ELSE par
    /\ job' = [job EXCEPT !.done = TRUE]
    /\ UNCHANGED <<field, retv, last, nops, tree, kern, ser, slots, wk>>

ParNext ==
    \/ Serial
    \/ Parallel2D
    \/ Fork
    \/ Take
    \/ Write
    \/ Join

SpecPar == ParInit /\ [][ParNext]_vars

(***************************************************************************)
(* Claims about the field container, checked under Spec                    *)
(***************************************************************************)
\* the grid points of a field of the given size
ValidPoints(size) ==
    IF Len(size) = 2
    THEN {<<x, y>> : x \in 0..(size[1] - 1), y \in 0..(size[2] - 1)}
    ELSE {<<x, y, z>> : x \in 0..(size[1] - 1), y \in 0..(size[2] - 1),
                        z \in 0..(size[3] - 1)}

SmallGrid(f) == f.dim # 0 /\ Product(f.size) <= 2 * MaxCells

\* the flat index the specification gives to a grid point
FlatIndex(size, p) ==
    IF Len(size) = 2 THEN p[1] + size[1] * p[2]
    ELSE p[1] + size[1] * p[2] + size[1] * size[2] * p[3]

\* C1: new(w,h) and new(w,h,d) panic exactly when some dimension is 0 or
\* >= 32767; otherwise the field has the requested size and w*h[*d]
\* coordinates and values, all zero, and a failed construction leaves no field.
C1_NewChecksDimensions ==
    last.op = "new" =>
        LET s == last.args
        IN  /\ (last.status = "panic") <=> (\E k \in 1..Len(s) : s[k] = 0 \/ s[k] >= 32767)
            /\ last.status = "panic" => field = NoField
            /\ last.status = "ok" =>
                  /\ field.dim = Len(s) /\ field.size = s
                  /\ Len(field.coordinates) = Product(s)
                  /\ Len(field.values) = Product(s)
                  /\ LET v == field.values
                         c == field.coordinates
                         zero == [k \in 1..Len(s) |-> Q(0)]
                     IN  \A i \in 1..Len(v) : v[i] = Q(0) /\ c[i] = zero

\* new(MaxDim2, 2) succeeded with 2 * MaxDim2 zero coordinates and values
C1_Witness ==
    /\ last.op = "new" /\ last.status = "ok"
    /\ last.args = <<MaxDim2, 2>>
    /\ field.size = <<MaxDim2, 2>>
    /\ Len(field.coordinates) = 2 * MaxDim2 /\ Len(field.values) = 2 * MaxDim2
    /\ \A i \in 1..Len(field.values) : field.values[i] = Q(0)

\* C2: every reachable field has coordinates.len() = values.len() = the
\* product of its grid dimensions.
C2_LengthsMatchGrid ==
    /\ field.dim # 0 =>
          /\ Len(field.coordinates) = Product(field.size)
          /\ Len(field.values) = Product(field.size)
    /\ outf.dim # 0 =>
          /\ Len(outf.coordinates) = Product(outf.size)
          /\ Len(outf.values) = Product(outf.size)

\* C3: on the valid grid points the index is x + w*y [+ w*h*z], a bijection
\* onto 0..cells-1, with x varying fastest.
C3_IndexBijection ==
    SmallGrid(field) =>
        LET V == ValidPoints(field.size)
            n == Product(field.size)
        IN  /\ \A p \in V : index(field, p) = FlatIndex(field.size, p)
            /\ \A p \in V : index(field, p) \in 0..(n - 1)
            /\ \A p, q \in V : index(field, p) = index(field, q) => p = q
            /\ \A i \in 0..(n - 1) : \E p \in V : index(field, p) = i
            /\ \A p \in V : p[1] + 1 < field.size[1] =>
                  index(field, [p EXCEPT ![1] = p[1] + 1]) = index(field, p) + 1

\* set_coord_at_point wrote grid point (2,1) of a 3x2 field into slot 5
C3_Witness ==
    /\ last.op = "set_coord_at_point" /\ last.status = "ok"
    /\ field.size = <<3, 2>>
    /\ last.args[1] = <<2, 1>>
    /\ field.coordinates[6] = last.args[2]
    /\ last.pre.coordinates[6] # last.args[2]

\* C4: coord_at_point, value_at_point and set_coord_at_point fail on every
\* grid point outside the grid.
C4_AccessorsBoundsChecked ==
    (/\ last.op \in {"coord_at_point", "value_at_point", "set_coord_at_point"}
     /\ \E k \in 1..last.pre.dim : last.args[1][k] >= last.pre.size[k])
    => last.status = "panic"

\* the coordinate the specification gives to index i of an axis of n points
\* with bounds b
AxisCoordinate(b, n, i) == NAdd(b[1], NDiv(NMul(Q(i), NSub(b[2], b[1])), Q(n)))

\* C5: after build_field every grid point has, on every axis, the coordinate
\* lo + i*(hi-lo)/n of that axis's own bounds and size.
C5_BuildFieldLinear ==
    (last.op = "build_field" /\ last.status = "ok" /\ SmallGrid(field)) =>
        \A p \in ValidPoints(field.size) : \A k \in 1..field.dim :
            field.coordinates[FlatIndex(field.size, p) + 1][k]
                = AxisCoordinate(last.args[k], field.size[k], p[k])

\* C6: after build_field on a 2D field, on an axis with lo < hi the points of
\* index 0 lie at lo, neighbours differ by (hi-lo)/n and no point reaches hi.
C6_BuildField2DHalfOpen ==
    (last.op = "build_field" /\ last.status = "ok" /\ field.dim = 2 /\ SmallGrid(field)) =>
        \A k \in 1..2 :
            LET lo == last.args[k][1]
                hi == last.args[k][2]
                c(p) == field.coordinates[FlatIndex(field.size, p) + 1][k]
            IN  NLt(lo, hi) =>
                  \A p \in ValidPoints(field.size) :
                     /\ p[k] = 0 => c(p) = lo
                     /\ p[k] + 1 < field.size[k] =>
                           NSub(c([p EXCEPT ![k] = p[k] + 1]), c(p))
                              = NDiv(NSub(hi, lo), Q(field.size[k]))
                     /\ NLt(c(p), hi)

\* build_field((-1,1), (0,2)) filled a 3x2 field
C6_Witness ==
    /\ last.op = "build_field" /\ last.status = "ok"
    /\ field.size = <<3, 2>>
    /\ last.args = <<(<<Q(-1), Q(1)>>), (<<Q(0), Q(2)>>)>>
    /\ field.coordinates[6] = <<Frac(1, 3), Q(1)>>

(***************************************************************************)
(* Claims about process_field, checked under SpecEval                      *)
(***************************************************************************)
\* C7: process_field of every generator and every tree of combinators returns
\* a field with the coordinates and the grid size of the input field, and
\* leaves the input field as it was before the call.
C7_ProcessFieldPreservesGrid ==
    last.op = "process_field" =>
        /\ outf.dim = field.dim
        /\ outf.size = field.size
        /\ outf.coordinates = field.coordinates
        /\ field = last.pre

\* Add over a RidgedMulti evaluated a 3D field with non-zero coordinates
C7_Witness ==
    /\ last.op = "process_field"
    /\ tree.kind = "Add" /\ tree.source1.kind = "RidgedMulti"
    /\ field.dim = 3 /\ Len(field.coordinates) = 4
    /\ \E i \in 1..Len(field.coordinates) : field.coordinates[i][1] # Q(0)
    /\ outf.coordinates = field.coordinates
    /\ Len(outf.values) = 4

\* C8: for the Perlin kernel in 2D and in 3D, process_field(field).values[i]
\* is get(field.coordinates[i]) for every index i.
C8_PerlinFieldEqualsGet ==
    (last.op = "process_field" /\ tree.kind = "Perlin") =>
        /\ Len(outf.values) = Len(field.coordinates)
        /\ \A i \in 1..Len(field.coordinates) :
              outf.values[i] = Perlin_get(tree.k, field.coordinates[i])

\* what the specification says a combiner computes from the values of its
\* two sources: sum, product, larger, smaller, power
CombinedValue(kind, value1, value2) ==
    CASE kind = "Add" -> NAdd(value1, value2)
      [] kind = "Multiply" -> NMul(value1, value2)
      [] kind = "Max" -> IF NLt(value1, value2) THEN value2 ELSE value1
      [] kind = "Min" -> IF NLt(value2, value1) THEN value2 ELSE value1
      [] kind = "Power" -> NPowf(value1, value2)

\* the output, index by index, is what CombinedValue gives for the two fields
CombinedPointwise(kind, out, field1, field2) ==
    /\ Len(out.values) = Len(field1.values)
    /\ Len(out.values) = Len(field2.values)
    /\ \A i \in 1..Len(out.values) :
          out.values[i] = CombinedValue(kind, field1.values[i], field2.values[i])

\* C11: for Add, Multiply, Max, Min and Power, on 2D and on 3D fields,
\* process_field(field).values[i] is the sum, product, larger, smaller, power
\* of source1.process_field(field).values[i] and
\* source2.process_field(field).values[i], for every index i.
C11_CombinersPointwise ==
    (last.op = "process_field" /\ tree.kind \in CombinerKinds) =>
        CombinedPointwise(tree.kind, outf, process_field(tree.source1, field),
                          process_field(tree.source2, field))

\* what the specification says Select computes at falloff 0: source2's value
\* when the control value lies strictly inside the bounds, else source1's
SelectedValue(bounds, control_value, value1, value2) ==
    IF NLt(bounds[1], control_value) /\ NLt(control_value, bounds[2])
    THEN value2 ELSE value1

\* C12: Select with falloff 0 outputs source2's value at index i when the
\* control value at i lies strictly between the bounds and source1's value
\* otherwise, also when the control value equals a bound.
C12_SelectFalloffZero ==
    (last.op = "process_field" /\ tree.kind = "Select" /\ tree.falloff = Q(0)) =>
        LET control == process_field(tree.control, field).values
            source1 == process_field(tree.source1, field).values
            source2 == process_field(tree.source2, field).values
        IN  /\ Len(outf.values) = Len(field.coordinates)
            /\ \A i \in 1..Len(outf.values) :
                  outf.values[i] =
                      SelectedValue(tree.bounds, control[i], source1[i], source2[i])

\* Select with falloff 0 and the default bounds (0, 1) evaluated a control
\* field with a value on the lower bound and one on the upper bound, for which
\* it gave source1's value, at indices where the two sources differ
C12_Witness ==
    /\ last.op = "process_field" /\ tree.kind = "Select" /\ tree.falloff = Q(0)
    /\ tree.bounds = <<Q(0), Q(1)>>
    /\ LET control == process_field(tree.control, field).values
           source1 == process_field(tree.source1, field).values
           source2 == process_field(tree.source2, field).values
       IN  /\ \E i \in 1..Len(control) :
                 control[i] = Q(0) /\ source1[i] # source2[i] /\ outf.values[i] = source1[i]
           /\ \E i \in 1..Len(control) :
                 control[i] = Q(1) /\ source1[i] # source2[i] /\ outf.values[i] = source1[i]

\* what the specification says Clamp computes for lo <= hi: v in [lo, hi]
\* stays, a smaller v becomes lo and a larger one hi
ClampedValue(v, lo, hi) == NMin(NMax(v, lo), hi)

\* C13: Clamp outputs clamp(v, lo, hi) pointwise: with lo <= hi every output
\* lies in [lo, hi] and equals the source value when that is in [lo, hi];
\* Clamp::new gives the bounds (-1, 1); set_lower_bound and set_upper_bound
\* change only the named bound.
C13_ClampPointwise ==
    /\ (last.op = "new" /\ tree.kind = "Clamp") =>
          tree.bounds = <<Q(-1), Q(1)>> /\ tree.source = last.pre
    /\ last.op = "set_lower_bound" =>
          /\ tree.bounds = <<last.args[1], last.pre.bounds[2]>>
          /\ tree.source = last.pre.source /\ tree.kind = "Clamp"
    /\ last.op = "set_upper_bound" =>
          /\ tree.bounds = <<last.pre.bounds[1], last.args[1]>>
          /\ tree.source = last.pre.source /\ tree.kind = "Clamp"
    /\ (last.op = "process_field" /\ tree.kind = "Clamp"
            /\ NLe(tree.bounds[1], tree.bounds[2])) =>
          LET source == process_field(tree.source, field).values
              lo == tree.bounds[1]
              hi == tree.bounds[2]
          IN  /\ Len(outf.values) = Len(source)
              /\ \A i \in 1..Len(source) :
                    /\ outf.values[i] = ClampedValue(source[i], lo, hi)
                    /\ NLe(lo, outf.values[i]) /\ NLe(outf.values[i], hi)
                    /\ (NLe(lo, source[i]) /\ NLe(source[i], hi)) =>
                          outf.values[i] = source[i]

\* a Clamp whose lower bound was set after its upper bound, to bounds other
\* than the default, cut one source value down and left another as it was
C13_Witness ==
    /\ last.op = "process_field" /\ tree.kind = "Clamp"
    /\ tree.bounds = <<Frac(-1, 2), Frac(1, 2)>>
    /\ LET source == process_field(tree.source, field).values
       IN  /\ \E i \in 1..Len(source) :
                 NGt(source[i], Frac(1, 2)) /\ outf.values[i] = Frac(1, 2)
           /\ \E i \in 1..Len(source) :
                 source[i] # Q(0) /\ outf.values[i] = source[i]

\* the values of the sequence s with the sign changed / taken away, as the
\* specification states them
Negated(s) == [i \in 1..Len(s) |-> NSub(Q(0), s[i])]

Absolute(s) == [i \in 1..Len(s) |-> IF NLt(s[i], Q(0)) THEN NSub(Q(0), s[i]) ELSE s[i]]

\* the values that the modifier `kind` stacked on the function t gives on the
\* current field
ValuesOf(kind, t) == process_field(Modifier_new(kind, t), field).values

\* C14: Negate outputs -v and Abs outputs |v| for every source value v, index
\* by index; Negate applied twice returns the source values, Abs applied twice
\* equals Abs applied once, and Abs of Negate equals Abs.
C14_NegateAbsPointwise ==
    (last.op = "process_field" /\ tree.kind \in {"Abs", "Negate"}) =>
        LET source == process_field(tree.source, field).values
        IN  /\ tree.kind = "Negate" => outf.values = Negated(source)
            /\ tree.kind = "Abs" => outf.values = Absolute(source)
            /\ ValuesOf("Negate", Modifier_new("Negate", tree.source)) = source
            /\ ValuesOf("Abs", Modifier_new("Abs", tree.source))
                   = ValuesOf("Abs", tree.source)
            /\ ValuesOf("Abs", Modifier_new("Negate", tree.source))
                   = ValuesOf("Abs", tree.source)

\* Negate evaluated a source with a positive and a negative value and changed
\* the sign of both; a second Negate on top gives the positive value back
C14_Witness ==
    /\ last.op = "process_field" /\ tree.kind = "Negate"
    /\ LET source == process_field(tree.source, field).values
       IN  /\ \E i \in 1..Len(source) :
                 /\ NGt(source[i], Q(0)) /\ NLt(outf.values[i], Q(0))
                 /\ ValuesOf("Negate", tree)[i] = source[i]
           /\ \E i \in 1..Len(source) :
                 NLt(source[i], Q(0)) /\ NGt(outf.values[i], Q(0))

\* C15: Exponent::new has the exponent 1.0, and with it the output for a
\* source value v is |v + 1| - 1: v when v >= -1 and -v - 2 when v < -1.
C15_ExponentDefaultFold ==
    /\ (last.op = "new" /\ tree.kind = "Exponent") => tree.exponent = Q(1)
    /\ (last.op = "process_field" /\ tree.kind = "Exponent" /\ tree.exponent = Q(1)) =>
          LET source == process_field(tree.source, field).values
          IN  /\ Len(outf.values) = Len(source)
              /\ \A i \in 1..Len(source) :
                    /\ outf.values[i] =
                          NSub(IF NLt(NAdd(source[i], Q(1)), Q(0))
                               THEN NSub(Q(0), NAdd(source[i], Q(1)))
                               ELSE NAdd(source[i], Q(1)), Q(1))
                    /\ outf.values[i] =
                          IF NLt(source[i], Q(-1))
                          THEN NSub(NSub(Q(0), source[i]), Q(2)) ELSE source[i]

\* an Exponent with the default exponent folded the source value -2 to 0
C15_Witness ==
    /\ last.op = "process_field" /\ tree.kind = "Exponent" /\ tree.exponent = Q(1)
    /\ tree.source.kind = "Constant" /\ tree.source.value = Q(-2)
    /\ Len(outf.values) = Len(field.coordinates) /\ Len(outf.values) > 0
    /\ \A i \in 1..Len(outf.values) : outf.values[i] = Q(0)

\* lerp(a, b, t) as the specification states it: a at t = 0 and b at t = 1
Lerp(a, b, t) == NAdd(NMul(NSub(Q(1), t), a), NMul(t, b))

C9_SerialEqualsParallel ==
    (ser.done /\ par.done) =>
        /\ Len(ser.values) = Len(par.values)
        /\ \A i \in 1..Len(ser.values) : ser.values[i] = par.values[i]

\* both strategies evaluated a 2D field and found a non-zero value
C9_Witness ==
    /\ ser.done /\ par.done
    /\ field.dim = 2 /\ Len(par.values) = Len(field.coordinates)
    /\ \E i \in 1..Len(par.values) : par.values[i] # Q(0)
    /\ \E i \in 1..Len(field.coordinates) :
          field.coordinates[i][1] # field.coordinates[i][2]

\* C10: in every data-parallel evaluation and under every interleaving of the
\* workers, slot i is written at most once while the map runs and exactly
\* once when it is done, by the worker that took element i, with the closure's
\* value of element i; the field returned is the one process_field returns.
C10_IndexStableCollect ==
    job.kind # "none" =>
        /\ Len(slots) = Len(job.input)
        /\ \A i \in 1..Len(slots) :
              /\ slots[i].n <= 1
              /\ slots[i].n = 1 =>
                    /\ slots[i].src = i
                    /\ slots[i].v = ParClosure(job.kind, job.env, job.input[i])
        /\ job.done =>
              /\ \A i \in 1..Len(slots) : slots[i].n = 1
              /\ outf = process_field(ParTree(job.kind), field)

\* a RidgedMulti map in which the last element completed before the first
C10_Witness ==
    /\ job.kind = "ridged_multi" /\ ~job.done
    /\ Len(slots) = MaxParCells
    /\ slots[Len(slots)].n = 1 /\ slots[1].n = 0
    /\ \E w \in 1..MaxWorkers : wk[w].i = 1

(***************************************************************************)
(* SpecKernel and SpecSet: a noise function is constructed by new() and    *)
(* configured by its builder methods; calls on &self read it.  SpecKernel  *)
(* is about a Perlin or an OpenSimplex, SpecSet about a RidgedMulti.       *)
(*   tree   the noise function                                             *)
(*   last   the last call that constructed or reconfigured it              *)
(*   retv   what the last call on &self returned, <<>> after a builder call*)
(***************************************************************************)
MAX_OCTAVES == 32

DEFAULT_OCTAVES == 6

\* math::clamp on usize
clamp_usize(val, min, max) == IF val < min THEN min ELSE IF val > max THEN max ELSE val

OpenSimplex_new == [seed |-> 0, perm_table |-> PermutationTable_new(0)]

\* a set_seed whose table depended on the seed that the kernel had before
OpenSimplex_set_seed_mut(self, seed) ==
    IF self.seed = seed THEN self
    ELSE [seed |-> seed, perm_table |-> PermutationTable_new(seed + self.seed)]

OpenSimplex_set_seed(self, seed) ==
    IF self.seed = seed THEN self
    ELSE [seed |-> seed, perm_table |-> PermutationTable_new(seed)]

\* STRETCH_CONSTANT_2D -0.211_324_865_405_187 and SQUISH_CONSTANT_2D
\* 0.366_025_403_784_439 are replaced by their convergents -3/14 and 3/8, the
\* values of (1/sqrt(3) - 1)/2 and (sqrt(3) - 1)/2 for sqrt(3) = 7/4
STRETCH_CONSTANT_2D == Frac(-3, 14)

SQUISH_CONSTANT_2D == Frac(3, 8)

NORM_CONSTANT_2D == Frac(1, 14)

add2(a, b) == <<NAdd(a[1], b[1]), NAdd(a[2], b[2])>>

sub2(a, b) == <<NSub(a[1], b[1]), NSub(a[2], b[2])>>

\* math::to_isize2 on a vertex, whose components are whole numbers
to_isize2(v) == <<v[1].a, v[2].a>>

\* the body of the inner fn gradient of the 2D get after
\* `let attn = 2.0 - math::dot2(position, position)`
OpenSimplex_gradient2_attenuated(perm_table, vertex, position, attn) ==
    IF Bound(attn) /\ NGt(attn, Q(0))
    THEN NMul(NPowi(attn, 4),
              dot2(position, gradient_get2(get2(perm_table, to_isize2(vertex)))))
    ELSE Q(0)

OpenSimplex_gradient2(perm_table, vertex, position) ==
    OpenSimplex_gradient2_attenuated(perm_table, vertex, position,
                                     NSub(Q(2), dot2(position, position)))

\* vertex and dpos as the 2D get leaves them after the region test:
\* contribution (0, 0) in region A, (1, 1) in region B
OpenSimplex_get2_vertex(stretched_floor, pos0, region_sum) ==
    LET t1 == NAdd(SQUISH_CONSTANT_2D, Q(1))
        t2 == NAdd(SQUISH_CONSTANT_2D, t1)
    IN  IF NLt(region_sum, Q(1))
        THEN [vertex |-> add2(stretched_floor, <<Q(0), Q(0)>>),
              dpos |-> sub2(pos0, <<Q(0), Q(0)>>)]
        ELSE [vertex |-> add2(stretched_floor, <<Q(1), Q(1)>>),
              dpos |-> sub2(pos0, <<t2, t2>>)]

\* ext_vertex and ext_dpos of the 2D get: the extra vertex from the
\* neighbouring simplex D, E or B in region A and C, F or A in region B
OpenSimplex_get2_ext(stretched_floor, rel_coords, pos0, region_sum) ==
    LET t0 == SQUISH_CONSTANT_2D
        t1 == NAdd(SQUISH_CONSTANT_2D, Q(1))
        t2 == NAdd(SQUISH_CONSTANT_2D, t1)
        t3 == NAdd(SQUISH_CONSTANT_2D, SQUISH_CONSTANT_2D)
        t4 == NAdd(Q(1), t2)
    IN  IF NLt(region_sum, Q(1))
        THEN LET center_dist == NSub(Q(1), region_sum)
             IN  IF NGt(center_dist, rel_coords[1]) \/ NGt(center_dist, rel_coords[2])
                 THEN IF NGt(rel_coords[1], rel_coords[2])
                      THEN [vertex |-> add2(stretched_floor, <<Q(1), Q(-1)>>),
                            dpos |-> sub2(pos0, <<Q(1), Q(-1)>>)]
                      ELSE [vertex |-> add2(stretched_floor, <<Q(-1), Q(1)>>),
                            dpos |-> sub2(pos0, <<Q(-1), Q(1)>>)]
                 ELSE [vertex |-> add2(stretched_floor, <<Q(1), Q(1)>>),
                       dpos |-> sub2(pos0, <<t2, t2>>)]
        ELSE LET center_dist == NSub(Q(2), region_sum)
             IN  IF NLt(center_dist, rel_coords[1]) \/ NLt(center_dist, rel_coords[2])
                 THEN IF NGt(rel_coords[1], rel_coords[2])
                      THEN [vertex |-> add2(stretched_floor, <<Q(2), Q(0)>>),
                            dpos |-> sub2(pos0, <<t4, t3>>)]
                      ELSE [vertex |-> add2(stretched_floor, <<Q(0), Q(2)>>),
                            dpos |-> sub2(pos0, <<t3, t4>>)]
                 ELSE [vertex |-> add2(stretched_floor, <<Q(0), Q(0)>>),
                       dpos |-> sub2(pos0, <<Q(0), Q(0)>>)]

\* value, from zero through the four `value = value + gradient(..)`, times
\* NORM_CONSTANT_2D
OpenSimplex_get2_value(c10, c01, c, ext) ==
    CASE Bound(<<c10, c01, c, ext>>) ->
        NMul(NAdd(NAdd(NAdd(NAdd(Q(0), c10), c01), c), ext), NORM_CONSTANT_2D)

\* vertex and position of the four gradient calls of the 2D get, in the order
\* of the calls: (1, 0), (0, 1), the point (0, 0) or (1, 1) and the
\* neighbouring simplex point
OpenSimplex_get2_calls(stretched_floor, pos0, v, e) ==
    LET t0 == SQUISH_CONSTANT_2D
        t1 == NAdd(SQUISH_CONSTANT_2D, Q(1))
    IN  <<[vertex |-> add2(stretched_floor, <<Q(1), Q(0)>>),
           dpos |-> sub2(pos0, <<t1, t0>>)],
          [vertex |-> add2(stretched_floor, <<Q(0), Q(1)>>),
           dpos |-> sub2(pos0, <<t0, t1>>)],
          v, e>>

\* the sum of the four contributions of the 2D get
OpenSimplex_get2_sum(perm_table, calls) ==
    OpenSimplex_get2_value(
        OpenSimplex_gradient2(perm_table, calls[1].vertex, calls[1].dpos),
        OpenSimplex_gradient2(perm_table, calls[2].vertex, calls[2].dpos),
        OpenSimplex_gradient2(perm_table, calls[3].vertex, calls[3].dpos),
        OpenSimplex_gradient2(perm_table, calls[4].vertex, calls[4].dpos))

OpenSimplex_get2_contributions(perm_table, stretched_floor, pos0, v, e) ==
    OpenSimplex_get2_sum(perm_table, OpenSimplex_get2_calls(stretched_floor, pos0, v, e))

\* the 2D get from stretched_floor, rel_coords and pos0 on
OpenSimplex_get2_from(perm_table, stretched_floor, rel_coords, pos0, region_sum) ==
    OpenSimplex_get2_contributions(perm_table, stretched_floor, pos0,
        OpenSimplex_get2_vertex(stretched_floor, pos0, region_sum),
        OpenSimplex_get2_ext(stretched_floor, rel_coords, pos0, region_sum))

\* stretched_floor, rel_coords, pos0 and region_sum of the 2D get
OpenSimplex_get2_cell(point) ==
    LET stretch_offset == NMul(NAdd(point[1], point[2]), STRETCH_CONSTANT_2D)
        stretched == <<NAdd(point[1], stretch_offset), NAdd(point[2], stretch_offset)>>
        stretched_floor == <<NFloor(stretched[1]), NFloor(stretched[2])>>
        squish_offset ==
            NMul(NAdd(stretched_floor[1], stretched_floor[2]), SQUISH_CONSTANT_2D)
        skewed_floor == <<NAdd(stretched_floor[1], squish_offset),
                          NAdd(stretched_floor[2], squish_offset)>>
        rel_coords == sub2(stretched, stretched_floor)
    IN  [stretched_floor |-> stretched_floor, rel_coords |-> rel_coords,
         pos0 |-> sub2(point, skewed_floor),
         region_sum |-> NAdd(rel_coords[1], rel_coords[2])]

OpenSimplex_get2_in(perm_table, cell) ==
    OpenSimplex_get2_from(perm_table, cell.stretched_floor, cell.rel_coords, cell.pos0,
                          cell.region_sum)

\* impl NoiseFn<[f64; 2]> for OpenSimplex
OpenSimplex_get2(self, point) ==
    OpenSimplex_get2_in(self.perm_table, OpenSimplex_get2_cell(point))

\* STRETCH_CONSTANT_3D -1.0 / 6.0 and SQUISH_CONSTANT_3D 1.0 / 3.0
STRETCH_CONSTANT_3D == Frac(-1, 6)

SQUISH_CONSTANT_3D == Frac(1, 3)

NORM_CONSTANT_3D == Frac(1, 14)

add3(a, b) == <<NAdd(a[1], b[1]), NAdd(a[2], b[2]), NAdd(a[3], b[3])>>

sub3(a, b) == <<NSub(a[1], b[1]), NSub(a[2], b[2]), NSub(a[3], b[3])>>

\* c_point & mask != 0 for a point code 0x00..0x07 and mask 0x01, 0x02 or 0x04
HasAxis(c_point, mask) == (c_point \div mask) % 2 = 1

\* a_point & b_point
PointAnd(a_point, b_point) ==
    (IF HasAxis(a_point, 1) /\ HasAxis(b_point, 1) THEN 1 ELSE 0)
    + (IF HasAxis(a_point, 2) /\ HasAxis(b_point, 2) THEN 2 ELSE 0)
    + (IF HasAxis(a_point, 4) /\ HasAxis(b_point, 4) THEN 4 ELSE 0)

\* a_point | b_point
PointOr(a_point, b_point) ==
    (IF HasAxis(a_point, 1) \/ HasAxis(b_point, 1) THEN 1 ELSE 0)
    + (IF HasAxis(a_point, 2) \/ HasAxis(b_point, 2) THEN 2 ELSE 0)
    + (IF HasAxis(a_point, 4) \/ HasAxis(b_point, 4) THEN 4 ELSE 0)

\* the inner fn gradient of the 3D get
OpenSimplex_gradient3(perm_table, vertex, position) ==
    LET attn == NSub(Q(2), dot3(position, position))
    IN  IF NGt(attn, Q(0))
        THEN NMul(NPowi(attn, 4),
                  dot3(position, gradient_get3(get3(perm_table,
                      <<vertex[1].a, vertex[2].a, vertex[3].a>>))))
        ELSE Q(0)

\* ext0 and ext1 of the 3D get after the code has gone through the three
\* axes: x, y and z each hold what the code adds to ext0_vertex, takes from
\* ext0_dpos, adds to ext1_vertex and takes from ext1_dpos on that axis
OpenSimplex_get3_ext(stretched_floor, pos0, x, y, z) ==
    <<[vertex |-> add3(stretched_floor, <<x[1], y[1], z[1]>>),
       dpos |-> sub3(pos0, <<x[2], y[2], z[2]>>)],
      [vertex |-> add3(stretched_floor, <<x[3], y[3], z[3]>>),
       dpos |-> sub3(pos0, <<x[4], y[4], z[4]>>)]>>

\* (a_point, a_dist, b_point, b_dist) of the tetrahedron at (0, 0, 0): the two
\* closest of (1, 0, 0), (0, 1, 0) and (0, 0, 1)
OpenSimplex_get3_closest_tetra0(rel_coords) ==
    IF NLe(rel_coords[2], rel_coords[1]) /\ NGt(rel_coords[3], rel_coords[2])
    THEN <<1, rel_coords[1], 4, rel_coords[3]>>
    ELSE IF NLt(rel_coords[1], rel_coords[2]) /\ NGt(rel_coords[3], rel_coords[1])
    THEN <<4, rel_coords[3], 2, rel_coords[2]>>
    ELSE <<1, rel_coords[1], 2, rel_coords[2]>>

\* (a_point, a_dist, b_point, b_dist) of the tetrahedron at (1, 1, 1): the two
\* closest of (1, 1, 0), (1, 0, 1) and (0, 1, 1)
OpenSimplex_get3_closest_tetra1(rel_coords) ==
    IF NLe(rel_coords[1], rel_coords[2]) /\ NLt(rel_coords[3], rel_coords[2])
    THEN <<6, rel_coords[1], 3, rel_coords[3]>>
    ELSE IF NGt(rel_coords[1], rel_coords[2]) /\ NLt(rel_coords[3], rel_coords[1])
    THEN <<3, rel_coords[3], 5, rel_coords[2]>>
    ELSE <<6, rel_coords[1], 5, rel_coords[2]>>

\* the two extra vertices of the tetrahedron at (0, 0, 0)
OpenSimplex_get3_ext_tetra0(stretched_floor, rel_coords, pos0, region_sum) ==
    LET one == Q(1)
        squish_constant == SQUISH_CONSTANT_3D
        center_dist == NSub(one, region_sum)
        ab == OpenSimplex_get3_closest_tetra0(rel_coords)
        a_point == ab[1]
        a_dist == ab[2]
        b_point == ab[3]
        b_dist == ab[4]
    IN  IF NGt(center_dist, a_dist) \/ NGt(center_dist, b_dist)
        THEN LET c_point == IF NLt(a_dist, b_dist) THEN b_point ELSE a_point
                 down0 == <<NNeg(one), NNeg(one), Q(0), Q(0)>>
                 down1 == <<Q(0), Q(0), NNeg(one), NNeg(one)>>
                 up == <<one, one, one, one>>
             IN  OpenSimplex_get3_ext(stretched_floor, pos0,
                     IF ~HasAxis(c_point, 1) THEN down0 ELSE up,
                     IF ~HasAxis(c_point, 2)
                     THEN (IF ~HasAxis(c_point, 1) THEN down1 ELSE down0)
                     ELSE up,
                     IF ~HasAxis(c_point, 4) THEN down1 ELSE up)
        ELSE LET c_point == PointOr(a_point, b_point)
                 t0 == NAdd(squish_constant, squish_constant)
                 t1 == NAdd(one, t0)
                 t2 == NSub(one, squish_constant)
                 t3 == NAdd(one, squish_constant)
                 lacks == <<Q(0), t0, NNeg(one), NNeg(t2)>>
                 has == <<one, t1, one, t3>>
             IN  OpenSimplex_get3_ext(stretched_floor, pos0,
                     IF ~HasAxis(c_point, 1) THEN lacks ELSE has,
                     IF ~HasAxis(c_point, 2) THEN lacks ELSE has,
                     IF ~HasAxis(c_point, 4) THEN lacks ELSE has)

\* the two extra vertices of the tetrahedron at (1, 1, 1); t1 is the t1 of
\* the enclosing block, which `let t1 = one + t1` of the last branch reads
OpenSimplex_get3_ext_tetra1(stretched_floor, rel_coords, pos0, region_sum, t1) ==
    LET one == Q(1)
        two == Q(2)
        squish_constant == SQUISH_CONSTANT_3D
        center_dist == NSub(Q(3), region_sum)
        ab == OpenSimplex_get3_closest_tetra1(rel_coords)
        a_point == ab[1]
        a_dist == ab[2]
        b_point == ab[3]
        b_dist == ab[4]
    IN  IF NLt(center_dist, a_dist) \/ NLt(center_dist, b_dist)
        THEN LET c_point == IF NLt(b_dist, a_dist) THEN b_point ELSE a_point
                 t0_ == NAdd(NAdd(squish_constant, squish_constant), squish_constant)
                 t1_ == NAdd(one, t0_)
                 t2_ == NAdd(two, t0_)
                 lacks == <<Q(0), t0_, Q(0), t0_>>
             IN  OpenSimplex_get3_ext(stretched_floor, pos0,
                     IF HasAxis(c_point, 1) THEN <<two, t2_, one, t1_>> ELSE lacks,
                     IF HasAxis(c_point, 2)
                     THEN (IF HasAxis(c_point, 1)
                           THEN <<one, t1_, NAdd(one, one), NAdd(t1_, one)>>
                           ELSE <<NAdd(one, one), NAdd(t1_, one), one, t1_>>)
                     ELSE lacks,
                     IF HasAxis(c_point, 4) THEN <<one, t1_, two, t2_>> ELSE lacks)
        ELSE LET c_point == PointAnd(a_point, b_point)
                 t0_ == squish_constant
                 t1_ == NAdd(one, t1)
                 t2_ == NAdd(squish_constant, squish_constant)
                 t3_ == NAdd(two, t2_)
                 lacks == <<Q(0), t0_, Q(0), t2_>>
                 has == <<one, t1_, two, t3_>>
             IN  OpenSimplex_get3_ext(stretched_floor, pos0,
                     IF HasAxis(c_point, 1) THEN has ELSE lacks,
                     IF HasAxis(c_point, 2) THEN has ELSE lacks,
                     IF HasAxis(c_point, 4) THEN has ELSE lacks)

\* OpenSimplex_get3_closest with (1,0,0) or (0,1,1) put in the place of each
\* of a and b that is farther, not only of the farther of the two
OpenSimplex_get3_closest_mut(rel_coords) ==
    LET one == Q(1)
        a_temp == NAdd(rel_coords[1], rel_coords[2])
        a == IF NGt(a_temp, one)
             THEN [point |-> 3, dist |-> NSub(a_temp, one), is_further |-> TRUE]
             ELSE [point |-> 4, dist |-> NSub(one, a_temp), is_further |-> FALSE]
        b_temp == NAdd(rel_coords[1], rel_coords[3])
        b == IF NGt(b_temp, one)
             THEN [point |-> 5, dist |-> NSub(b_temp, one), is_further |-> TRUE]
             ELSE [point |-> 2, dist |-> NSub(one, b_temp), is_further |-> FALSE]
        c_temp == NAdd(rel_coords[2], rel_coords[3])
        c == IF NGt(c_temp, one)
             THEN [point |-> 6, dist |-> NSub(c_temp, one), is_further |-> TRUE]
             ELSE [point |-> 1, dist |-> NSub(one, c_temp), is_further |-> FALSE]
    IN  [a |-> IF NLt(a.dist, c.dist) THEN c ELSE a,
         b |-> IF NLt(b.dist, c.dist) THEN c ELSE b]

\* a and b of the octahedron: the closest of (0,0,1) and (1,1,0), the closest
\* of (0,1,0) and (1,0,1), and (1,0,0) or (0,1,1) in place of the farther of
\* the two when it is closer
OpenSimplex_get3_closest(rel_coords) ==
    LET one == Q(1)
        a_temp == NAdd(rel_coords[1], rel_coords[2])
        a == IF NGt(a_temp, one)
             THEN [point |-> 3, dist |-> NSub(a_temp, one), is_further |-> TRUE]
             ELSE [point |-> 4, dist |-> NSub(one, a_temp), is_further |-> FALSE]
        b_temp == NAdd(rel_coords[1], rel_coords[3])
        b == IF NGt(b_temp, one)
             THEN [point |-> 5, dist |-> NSub(b_temp, one), is_further |-> TRUE]
             ELSE [point |-> 2, dist |-> NSub(one, b_temp), is_further |-> FALSE]
        c_temp == NAdd(rel_coords[2], rel_coords[3])
        c == IF NGt(c_temp, one)
             THEN [point |-> 6, dist |-> NSub(c_temp, one), is_further |-> TRUE]
             ELSE [point |-> 1, dist |-> NSub(one, c_temp), is_further |-> FALSE]
    IN  IF NLe(a.dist, b.dist) /\ NLt(a.dist, c.dist) THEN [a |-> c, b |-> b]
        ELSE IF NGt(a.dist, b.dist) /\ NLt(b.dist, c.dist) THEN [a |-> a, b |-> c]
        ELSE [a |-> a, b |-> b]

\* (-1, 1, 1), (1, -1, 1) or (1, 1, -1) by the axis c_point lacks, with what
\* the code takes from the dpos
OpenSimplex_get3_lacking(stretched_floor, pos0, c_point, t0, t1) ==
    IF ~HasAxis(c_point, 1)
    THEN [vertex |-> add3(stretched_floor, <<Q(-1), Q(1), Q(1)>>),
          dpos |-> sub3(pos0, <<NNeg(t1), t0, t0>>)]
    ELSE IF ~HasAxis(c_point, 2)
    THEN [vertex |-> add3(stretched_floor, <<Q(1), Q(-1), Q(1)>>),
          dpos |-> sub3(pos0, <<t0, NNeg(t1), t0>>)]
    ELSE [vertex |-> add3(stretched_floor, <<Q(1), Q(1), Q(-1)>>),
          dpos |-> sub3(pos0, <<t0, t0, NNeg(t1)>>)]

\* (2, 0, 0), (0, 2, 0) or (0, 0, 2) by the axis c_point has: t1 is taken
\* from the dpos on that axis and t0 on the two others
OpenSimplex_get3_double(stretched_floor, pos0, c_point, t0, t1) ==
    IF HasAxis(c_point, 1)
    THEN [vertex |-> add3(stretched_floor, <<Q(2), Q(0), Q(0)>>),
          dpos |-> sub3(pos0, <<t1, t0, t0>>)]
    ELSE IF HasAxis(c_point, 2)
    THEN [vertex |-> add3(stretched_floor, <<Q(0), Q(2), Q(0)>>),
          dpos |-> sub3(pos0, <<t0, t1, t0>>)]
    ELSE [vertex |-> add3(stretched_floor, <<Q(0), Q(0), Q(2)>>),
          dpos |-> sub3(pos0, <<t0, t0, t1>>)]

\* the two extra vertices of the octahedron
OpenSimplex_get3_ext_octa(stretched_floor, pos0, a, b) ==
    LET one == Q(1)
        two == Q(2)
        squish_constant == SQUISH_CONSTANT_3D
    IN  IF a.is_further = b.is_further
        THEN IF a.is_further
             THEN LET t0 == NAdd(squish_constant, squish_constant)
                      t1 == NAdd(two, t0)
                      t2 == NAdd(NAdd(one, squish_constant), t0)
                  IN  <<[vertex |-> add3(stretched_floor, <<one, one, one>>),
                         dpos |-> sub3(pos0, <<t2, t2, t2>>)],
                        OpenSimplex_get3_double(stretched_floor, pos0,
                                                PointAnd(a.point, b.point), t0, t1)>>
             ELSE <<[vertex |-> stretched_floor, dpos |-> pos0],
                    OpenSimplex_get3_lacking(stretched_floor, pos0,
                        PointOr(a.point, b.point),
                        NAdd(one, squish_constant), NSub(one, squish_constant))>>
        ELSE LET t0 == NAdd(one, squish_constant)
                 t1 == NSub(one, squish_constant)
                 t2 == NAdd(squish_constant, squish_constant)
                 c_point0 == IF a.is_further THEN a.point ELSE b.point
                 c_point1 == IF a.is_further THEN b.point ELSE a.point
             IN  <<OpenSimplex_get3_lacking(stretched_floor, pos0, c_point0, t0, t1),
                   OpenSimplex_get3_double(stretched_floor, pos0, c_point1,
                                           t2, NAdd(t2, two))>>

\* vertex and position of every gradient call of the 3D get, in the order of
\* the calls: the vertices of the simplex, then ext0 and ext1
OpenSimplex_get3_calls(stretched_floor, rel_coords, pos0, region_sum) ==
    LET zero == Q(0)
        one == Q(1)
        two == Q(2)
        squish_constant == SQUISH_CONSTANT_3D
        At(v, d) == [vertex |-> add3(stretched_floor, v), dpos |-> sub3(pos0, d)]
    IN  IF NLe(region_sum, one)
        THEN LET t0 == squish_constant
                 t1 == NAdd(squish_constant, one)
             IN  <<At(<<zero, zero, zero>>, <<zero, zero, zero>>),
                   At(<<one, zero, zero>>, <<t1, t0, t0>>),
                   At(<<zero, one, zero>>, <<t0, t1, t0>>),
                   At(<<zero, zero, one>>, <<t0, t0, t1>>)>>
                 \o OpenSimplex_get3_ext_tetra0(stretched_floor, rel_coords, pos0,
                                                region_sum)
        ELSE IF NLe(two, region_sum)
        THEN LET t0 == NMul(two, squish_constant)
                 t1 == NAdd(one, NMul(two, squish_constant))
                 t2 == NAdd(t1, squish_constant)
             IN  <<At(<<one, one, zero>>, <<t1, t1, t0>>),
                   At(<<one, zero, one>>, <<t1, t0, t1>>),
                   At(<<zero, one, one>>, <<t0, t1, t1>>),
                   At(<<one, one, one>>, <<t2, t2, t2>>)>>
                 \o OpenSimplex_get3_ext_tetra1(stretched_floor, rel_coords, pos0,
                                                region_sum, t1)
        ELSE LET t0 == squish_constant
                 t1 == NAdd(one, squish_constant)
                 t2 == NMul(two, squish_constant)
                 t3 == NAdd(one, NMul(two, squish_constant))
                 closest == OpenSimplex_get3_closest(rel_coords)
             IN  <<At(<<one, zero, zero>>, <<t1, t0, t0>>),
                   At(<<zero, one, zero>>, <<t0, t1, t0>>),
                   At(<<zero, zero, one>>, <<t0, t0, t1>>),
                   At(<<one, one, zero>>, <<t3, t3, t2>>),
                   At(<<one, zero, one>>, <<t3, t2, t3>>),
                   At(<<zero, one, one>>, <<t2, t3, t3>>)>>
                 \o OpenSimplex_get3_ext_octa(stretched_floor, pos0,
                                              closest.a, closest.b)

\* stretched_floor, rel_coords, pos0 and region_sum of the 3D get
OpenSimplex_get3_cell(point) ==
    LET stretch_offset ==
            NMul(NAdd(NAdd(point[1], point[2]), point[3]), STRETCH_CONSTANT_3D)
        stretched == <<NAdd(point[1], stretch_offset), NAdd(point[2], stretch_offset),
                       NAdd(point[3], stretch_offset)>>
        stretched_floor == <<NFloor(stretched[1]), NFloor(stretched[2]),
                             NFloor(stretched[3])>>
        squish_offset ==
            NMul(NAdd(NAdd(stretched_floor[1], stretched_floor[2]), stretched_floor[3]),
                 SQUISH_CONSTANT_3D)
        skewed_floor == <<NAdd(stretched_floor[1], squish_offset),
                          NAdd(stretched_floor[2], squish_offset),
                          NAdd(stretched_floor[3], squish_offset)>>
        rel_coords == sub3(stretched, stretched_floor)
    IN  [stretched_floor |-> stretched_floor, rel_coords |-> rel_coords,
         pos0 |-> sub3(point, skewed_floor),
         region_sum |-> NAdd(NAdd(rel_coords[1], rel_coords[2]), rel_coords[3])]

\* value, from zero through the `value = value + gradient(..)` of the calls
RECURSIVE OpenSimplex_get3_value(_, _, _, _)
OpenSimplex_get3_value(perm_table, calls, i, value) ==
    IF i > Len(calls) THEN value
    ELSE OpenSimplex_get3_value(perm_table, calls, i + 1,
             NAdd(value, OpenSimplex_gradient3(perm_table, calls[i].vertex,
                                               calls[i].dpos)))

OpenSimplex_get3_from(perm_table, cell) ==
    NMul(OpenSimplex_get3_value(perm_table,
             OpenSimplex_get3_calls(cell.stretched_floor, cell.rel_coords, cell.pos0,
                                    cell.region_sum), 1, Q(0)),
         NORM_CONSTANT_3D)

\* impl NoiseFn<[f64; 3]> for OpenSimplex
OpenSimplex_get3(self, point) ==
    OpenSimplex_get3_from(self.perm_table, OpenSimplex_get3_cell(point))

\* STRETCH_CONSTANT_4D -0.138_196_601_125_011, SQUISH_CONSTANT_4D
\* 0.309_016_994_374_947 and NORM_CONSTANT_4D 1.0 / 6.869_909_007_095_662_5
\* are replaced by -1/8 and 1/4, the values of (1/sqrt(5) - 1)/4 and
\* (sqrt(5) - 1)/4 for sqrt(5) = 2, and by 1/7
STRETCH_CONSTANT_4D == Frac(-1, 8)

SQUISH_CONSTANT_4D == Frac(1, 4)

NORM_CONSTANT_4D == Frac(1, 7)

add4(a, b) == <<NAdd(a[1], b[1]), NAdd(a[2], b[2]), NAdd(a[3], b[3]), NAdd(a[4], b[4])>>

sub4(a, b) == <<NSub(a[1], b[1]), NSub(a[2], b[2]), NSub(a[3], b[3]), NSub(a[4], b[4])>>

\* the inner fn gradient of the 4D get
OpenSimplex_gradient4(perm_table, vertex, pos) ==
    LET attn == NSub(Q(2), dot4(pos, pos))
    IN  IF NGt(attn, Q(0))
        THEN NMul(NPowi(attn, 4),
                  dot4(pos, gradient_get4(get4(perm_table,
                      <<vertex[1].a, vertex[2].a, vertex[3].a, vertex[4].a>>))))
        ELSE Q(0)

\* pos1..pos4 of the contributions at (1,0,0,0), (0,1,0,0), (0,0,1,0) and
\* (0,0,0,1): the same code in the pentachoron at (0,0,0,0) and in the first
\* dispentachoron
OpenSimplex_get4_singles(pos0) ==
    LET pos1 == sub4(pos0, <<NAdd(Q(1), SQUISH_CONSTANT_4D), SQUISH_CONSTANT_4D,
                            SQUISH_CONSTANT_4D, SQUISH_CONSTANT_4D>>)
        pos2 == <<NAdd(pos1[1], Q(1)), NSub(pos1[2], Q(1)), pos1[3], pos1[4]>>
        pos3 == <<pos2[1], pos1[2], NSub(pos1[3], Q(1)), pos1[4]>>
        pos4 == <<pos2[1], pos1[2], pos1[3], NSub(pos1[4], Q(1))>>
    IN  <<pos1, pos2, pos3, pos4>>

\* pos4, pos3, pos2 of the contributions at (1,1,1,0), (1,1,0,1) and
\* (1,0,1,1): the same code in the pentachoron at (1,1,1,1) and in the second
\* dispentachoron
OpenSimplex_get4_triples(pos0) ==
    LET squish_constant_3 == NMul(Q(3), SQUISH_CONSTANT_4D)
        pos4 == sub4(pos0, <<NAdd(Q(1), squish_constant_3), NAdd(Q(1), squish_constant_3),
                            NAdd(Q(1), squish_constant_3), squish_constant_3>>)
        pos3 == <<pos4[1], pos4[2], NAdd(pos4[3], Q(1)), NSub(pos4[4], Q(1))>>
        pos2 == <<pos4[1], NAdd(pos4[2], Q(1)), pos4[3], pos3[4]>>
    IN  <<pos4, pos3, pos2>>

\* pos6..pos10 of the contributions at (1,0,1,0), (1,0,0,1), (0,1,1,0),
\* (0,1,0,1) and (0,0,1,1) from the pos5 of (1,1,0,0)
OpenSimplex_get4_pairs(pos5) ==
    LET pos6 == <<pos5[1], NAdd(pos5[2], Q(1)), NSub(pos5[3], Q(1)), pos5[4]>>
        pos7 == <<pos5[1], pos6[2], pos5[3], NSub(pos5[4], Q(1))>>
        pos8 == <<NAdd(pos5[1], Q(1)), pos5[2], pos6[3], pos5[4]>>
        pos9 == <<pos8[1], pos5[2], pos5[3], pos7[4]>>
        pos10 == <<pos8[1], pos6[2], pos6[3], pos7[4]>>
    IN  <<pos5, pos6, pos7, pos8, pos9, pos10>>

\* vertex and position of every gradient call of the 4D get, in the order of
\* the calls
OpenSimplex_get4_calls(stretched_floor, pos0, region_sum) ==
    LET zero == Q(0)
        one == Q(1)
        sq == SQUISH_CONSTANT_4D
        At(v, pos) == [vertex |-> add4(stretched_floor, v), dpos |-> pos]
        s == OpenSimplex_get4_singles(pos0)
        t == OpenSimplex_get4_triples(pos0)
        Pairs(p) == <<At(<<one, one, zero, zero>>, p[1]),
                      At(<<one, zero, one, zero>>, p[2]),
                      At(<<one, zero, zero, one>>, p[3]),
                      At(<<zero, one, one, zero>>, p[4]),
                      At(<<zero, one, zero, one>>, p[5]),
                      At(<<zero, zero, one, one>>, p[6])>>
        Singles == <<At(<<one, zero, zero, zero>>, s[1]),
                     At(<<zero, one, zero, zero>>, s[2]),
                     At(<<zero, zero, one, zero>>, s[3]),
                     At(<<zero, zero, zero, one>>, s[4])>>
        Triples == <<At(<<one, one, one, zero>>, t[1]),
                     At(<<one, one, zero, one>>, t[2]),
                     At(<<one, zero, one, one>>, t[3])>>
    IN  IF NLe(region_sum, one)
        THEN <<[vertex |-> stretched_floor, dpos |-> pos0]>> \o Singles
        ELSE IF NLe(Q(3), region_sum)
        THEN Triples
             \o <<At(<<zero, one, one, one>>,
                     <<NSub(pos0[1], NMul(Q(3), sq)), t[1][2], t[1][3], t[2][4]>>),
                  At(<<one, one, one, one>>,
                     <<NSub(t[1][1], sq), NSub(t[1][2], sq), NSub(t[1][3], sq),
                       NSub(t[2][4], sq)>>)>>
        ELSE IF NLe(region_sum, Q(2))
        THEN Singles
             \o Pairs(OpenSimplex_get4_pairs(
                    <<NSub(s[1][1], sq), NSub(s[2][2], sq), NSub(s[1][3], sq),
                      NSub(s[1][4], sq)>>))
        ELSE Triples
             \o <<At(<<zero, one, one, one>>,
                     <<NAdd(t[1][1], one), t[1][2], t[1][3], t[2][4]>>)>>
             \o Pairs(OpenSimplex_get4_pairs(
                    <<NAdd(t[1][1], sq), NAdd(t[1][2], sq), NAdd(t[2][3], sq),
                      NAdd(t[1][4], sq)>>))

\* stretched_floor, rel_coords, pos0 and region_sum of the 4D get
OpenSimplex_get4_cell(point) ==
    LET stretch_offset ==
            NMul(NAdd(NAdd(NAdd(point[1], point[2]), point[3]), point[4]),
                 STRETCH_CONSTANT_4D)
        stretched == <<NAdd(point[1], stretch_offset), NAdd(point[2], stretch_offset),
                       NAdd(point[3], stretch_offset), NAdd(point[4], stretch_offset)>>
        stretched_floor == <<NFloor(stretched[1]), NFloor(stretched[2]),
                             NFloor(stretched[3]), NFloor(stretched[4])>>
        squish_offset ==
            NMul(NAdd(NAdd(NAdd(stretched_floor[1], stretched_floor[2]),
                           stretched_floor[3]), stretched_floor[4]),
                 SQUISH_CONSTANT_4D)
        skewed_floor == <<NAdd(stretched_floor[1], squish_offset),
                          NAdd(stretched_floor[2], squish_offset),
                          NAdd(stretched_floor[3], squish_offset),
                          NAdd(stretched_floor[4], squish_offset)>>
        rel_coords == sub4(stretched, stretched_floor)
    IN  [stretched_floor |-> stretched_floor, rel_coords |-> rel_coords,
         pos0 |-> sub4(point, skewed_floor),
         region_sum |-> NAdd(NAdd(NAdd(rel_coords[1], rel_coords[2]), rel_coords[3]),
                             rel_coords[4])]

\* value, from 0.0 through the `value += gradient(..)` of the calls
RECURSIVE OpenSimplex_get4_value(_, _, _, _)
OpenSimplex_get4_value(perm_table, calls, i, value) ==
    IF i > Len(calls) THEN value
    ELSE OpenSimplex_get4_value(perm_table, calls, i + 1,
             NAdd(value, OpenSimplex_gradient4(perm_table, calls[i].vertex,
                                               calls[i].dpos)))

OpenSimplex_get4_from(perm_table, cell) ==
    NMul(OpenSimplex_get4_value(perm_table,
             OpenSimplex_get4_calls(cell.stretched_floor, cell.pos0, cell.region_sum),
             1, Q(0)),
         NORM_CONSTANT_4D)

\* impl NoiseFn<[f64; 4]> for OpenSimplex
OpenSimplex_get4(self, point) ==
    OpenSimplex_get4_from(self.perm_table, OpenSimplex_get4_cell(point))

\* the loop of calc_spectral_weights: element i becomes frequency.powf(-1.0)
\* for frequency = self.frequency * self.lacunarity^i.  The weight is kept as
\* the operands of that power: lacunarity^31 is beyond the integers of the
\* checker.
RidgedMulti_calc_spectral_weights(self) ==
    [self EXCEPT !.spectral_weights =
        [i \in 1..Len(@) |->
            IF i <= self.octaves
            THEN [frequency |-> self.frequency, lacunarity |-> self.lacunarity,
                  power |-> i - 1]
            ELSE @[i]]]

RidgedMulti_new ==
    RidgedMulti_calc_spectral_weights(
        [octaves |-> DEFAULT_OCTAVES, frequency |-> Q(1),
         lacunarity |-> Frac(217, 100), gain |-> Q(2), seed |-> 0,
         sources |-> build_sources(0, DEFAULT_OCTAVES),
         spectral_weights |-> Vec(Q(0), DEFAULT_OCTAVES)])

RidgedMulti_set_gain(self, gain) == [self EXCEPT !.gain = gain]

\* a set_octaves that stored the octave count it was given
RidgedMulti_set_octaves_mut(self, octaves) ==
    IF self.octaves = octaves THEN self
    ELSE RidgedMulti_calc_spectral_weights(
            [self EXCEPT !.octaves = octaves,
                         !.sources = build_sources(self.seed, octaves),
                         !.spectral_weights = Vec(Q(0), octaves)])

RidgedMulti_set_octaves(self, octaves) ==
    IF self.octaves = octaves THEN self
    ELSE RidgedMulti_calc_spectral_weights(
            [self EXCEPT !.octaves = clamp_usize(octaves, 1, MAX_OCTAVES),
                         !.sources = build_sources(self.seed,
                                         clamp_usize(octaves, 1, MAX_OCTAVES)),
                         !.spectral_weights =
                             Vec(Q(0), clamp_usize(octaves, 1, MAX_OCTAVES))])

RidgedMulti_set_frequency(self, frequency) ==
    RidgedMulti_calc_spectral_weights([self EXCEPT !.frequency = frequency])

RidgedMulti_set_lacunarity(self, lacunarity) ==
    RidgedMulti_calc_spectral_weights([self EXCEPT !.lacunarity = lacunarity])

\* a set_seed that rebuilt the sources for the default octave count
RidgedMulti_set_seed_mut(self, seed) ==
    IF self.seed = seed THEN self
    ELSE [self EXCEPT !.seed = seed, !.sources = build_sources(seed, DEFAULT_OCTAVES)]

RidgedMulti_set_seed(self, seed) ==
    IF self.seed = seed THEN self
    ELSE [self EXCEPT !.seed = seed, !.sources = build_sources(seed, self.octaves)]

KernelKinds == {"Perlin", "OpenSimplex"}

\* Perlin::new(), OpenSimplex::new()
Kernel_new(kind) ==
    CASE kind = "Perlin" -> [kind |-> kind, k |-> Perlin_new]
      [] kind = "OpenSimplex" -> [kind |-> kind, k |-> OpenSimplex_new]

\* Seedable::set_seed for Perlin and for OpenSimplex
Kernel_set_seed(self, seed) ==
    CASE self.kind = "Perlin" -> [self EXCEPT !.k = Perlin_set_seed(@, seed)]
      [] self.kind = "OpenSimplex" -> [self EXCEPT !.k = OpenSimplex_set_seed(@, seed)]

\* Seedable::seed for Perlin and for OpenSimplex
Kernel_seed(self) == self.k.seed

\* Seedable::seed for RidgedMulti
RidgedMulti_seed(self) == self.seed

\* octave counts given to set_octaves: below, inside and above [1, MAX_OCTAVES]
OctaveInputs == {0, 1, 2, 3, MAX_OCTAVES, MAX_OCTAVES + 1}

\* seeds given to set_seed of a kernel: three, so that a seed can be given
\* again after two others
SeedInputs == 0..(MaxSeed + 1)

\* seeds given to set_seed of a RidgedMulti
RidgedSeedInputs == 0..MaxSeed

FrequencyInputs == {Q(1), Q(2)}

LacunarityInputs == {Q(1), Q(2), Frac(217, 100)}

GainInputs == {Frac(1, 2), Q(2)}

\* the point evaluations of a kernel: NoiseFn::get, and perlin_2d, the
\* gradient-lerp form that Perlin has besides
GetForms(kind) == IF kind = "Perlin" THEN {"get", "perlin_2d"} ELSE {"get"}

\* points of 2 dimensions in each part of the 2D get of OpenSimplex (region A
\* and region B, each with its three extra vertices) with the first relative
\* coordinate below, equal to and above the second
OpenSimplexPoints2 ==
    {<<Frac(-3, 4), Q(0)>>, <<Frac(-3, 4), Frac(1, 4)>>, <<Frac(-1, 2), Frac(1, 4)>>,
     <<Frac(-1, 4), Frac(-1, 4)>>, <<Frac(-1, 4), Frac(1, 2)>>,
     <<Frac(-1, 4), Frac(3, 4)>>, <<Q(0), Frac(-3, 4)>>, <<Q(0), Q(0)>>,
     <<Q(0), Frac(3, 4)>>, <<Frac(1, 4), Frac(-1, 2)>>, <<Frac(1, 2), Frac(-1, 4)>>,
     <<Frac(3, 4), Q(0)>>}

\* points of 3 dimensions in each part of the 3D get of OpenSimplex: the
\* tetrahedron at (0, 0, 0) with (0, 0, 0) among the two closest points and
\* without, the tetrahedron at (1, 1, 1) with (1, 1, 1) among them and without,
\* the octahedron with a and b on the side of (1, 1, 1), on the side of
\* (0, 0, 0) and on both sides, each with the relative coordinates in the
\* orders and with the ties that the part admits at small denominators
OpenSimplexPoints3 ==
    {<<Q(-1), Frac(-1, 2), Frac(-1, 2)>>, <<Q(-1), Frac(-1, 2), Q(0)>>,
     <<Q(-1), Q(0), Frac(-1, 2)>>, <<Frac(-5, 6), Frac(-1, 6), Q(0)>>,
     <<Frac(-5, 6), Q(0), Frac(-1, 6)>>, <<Frac(-2, 3), Frac(-2, 3), Q(0)>>,
     <<Frac(-2, 3), Frac(-2, 3), Frac(1, 3)>>,
     <<Frac(-2, 3), Frac(-1, 2), Frac(-1, 3)>>,
     <<Frac(-2, 3), Frac(-1, 3), Frac(-1, 2)>>, <<Frac(-2, 3), Frac(-1, 3), Q(0)>>,
     <<Frac(-2, 3), Frac(-1, 3), Frac(1, 3)>>, <<Frac(-2, 3), Q(0), Frac(-2, 3)>>,
     <<Frac(-2, 3), Q(0), Frac(-1, 3)>>, <<Frac(-2, 3), Frac(1, 3), Frac(-1, 3)>>,
     <<Frac(-2, 3), Frac(1, 3), Frac(1, 3)>>, <<Frac(-1, 2), Q(-1), Frac(-1, 2)>>,
     <<Frac(-1, 2), Q(-1), Q(0)>>, <<Frac(-1, 2), Frac(-2, 3), Frac(-1, 3)>>,
     <<Frac(-1, 2), Frac(-1, 2), Q(-1)>>, <<Frac(-1, 2), Frac(-1, 2), Frac(-1, 3)>>,
     <<Frac(-1, 2), Frac(-1, 2), Frac(1, 2)>>,
     <<Frac(-1, 2), Frac(-1, 3), Frac(-2, 3)>>,
     <<Frac(-1, 2), Frac(-1, 3), Frac(-1, 2)>>,
     <<Frac(-1, 2), Frac(-1, 3), Frac(1, 3)>>, <<Frac(-1, 2), Q(0), Frac(1, 2)>>,
     <<Frac(-1, 2), Frac(1, 3), Frac(-1, 3)>>, <<Frac(-1, 2), Frac(1, 2), Q(0)>>,
     <<Frac(-1, 3), Frac(-2, 3), Frac(-1, 2)>>, <<Frac(-1, 3), Frac(-2, 3), Q(0)>>,
     <<Frac(-1, 3), Frac(-2, 3), Frac(1, 3)>>,
     <<Frac(-1, 3), Frac(-1, 2), Frac(-2, 3)>>,
     <<Frac(-1, 3), Frac(-1, 2), Frac(-1, 2)>>,
     <<Frac(-1, 3), Frac(-1, 2), Frac(1, 3)>>,
     <<Frac(-1, 3), Frac(-1, 3), Frac(-1, 3)>>,
     <<Frac(-1, 3), Frac(-1, 3), Frac(1, 3)>>,
     <<Frac(-1, 3), Frac(-1, 3), Frac(2, 3)>>, <<Frac(-1, 3), Q(0), Frac(-2, 3)>>,
     <<Frac(-1, 3), Q(0), Frac(1, 3)>>, <<Frac(-1, 3), Q(0), Frac(2, 3)>>,
     <<Frac(-1, 3), Frac(1, 3), Frac(-1, 2)>>,
     <<Frac(-1, 3), Frac(1, 3), Frac(-1, 3)>>, <<Frac(-1, 3), Frac(1, 3), Q(0)>>,
     <<Frac(-1, 3), Frac(1, 3), Frac(1, 2)>>, <<Frac(-1, 3), Frac(1, 2), Frac(1, 3)>>,
     <<Frac(-1, 3), Frac(2, 3), Q(0)>>, <<Frac(-1, 6), Frac(-5, 6), Q(0)>>,
     <<Frac(-1, 6), Q(0), Frac(-5, 6)>>, <<Q(0), Frac(-5, 6), Frac(-1, 6)>>,
     <<Q(0), Frac(-2, 3), Frac(-2, 3)>>, <<Q(0), Frac(-2, 3), Frac(-1, 3)>>,
     <<Q(0), Frac(-1, 2), Frac(1, 2)>>, <<Q(0), Frac(-1, 3), Frac(-2, 3)>>,
     <<Q(0), Frac(-1, 3), Frac(1, 3)>>, <<Q(0), Frac(-1, 3), Frac(2, 3)>>,
     <<Q(0), Frac(-1, 6), Frac(-5, 6)>>, <<Q(0), Q(0), Q(0)>>,
     <<Q(0), Q(0), Frac(2, 3)>>, <<Q(0), Q(0), Frac(3, 2)>>,
     <<Q(0), Frac(1, 3), Frac(-1, 3)>>, <<Q(0), Frac(1, 2), Frac(-1, 2)>>,
     <<Q(0), Frac(1, 2), Frac(1, 2)>>, <<Q(0), Frac(1, 2), Q(1)>>,
     <<Q(0), Frac(1, 2), Frac(3, 2)>>, <<Q(0), Frac(2, 3), Q(0)>>,
     <<Q(0), Frac(2, 3), Frac(2, 3)>>, <<Q(0), Frac(3, 2), Frac(3, 2)>>,
     <<Frac(1, 3), Frac(-1, 2), Frac(-1, 3)>>,
     <<Frac(1, 3), Frac(-1, 3), Frac(-1, 2)>>,
     <<Frac(1, 3), Frac(-1, 3), Frac(-1, 3)>>, <<Frac(1, 3), Frac(-1, 3), Q(0)>>,
     <<Frac(1, 3), Frac(-1, 3), Frac(1, 2)>>, <<Frac(1, 3), Q(0), Frac(-1, 3)>>,
     <<Frac(1, 3), Frac(1, 2), Frac(-1, 3)>>, <<Frac(1, 3), Frac(1, 2), Frac(1, 2)>>,
     <<Frac(1, 3), Frac(4, 3), Frac(4, 3)>>, <<Frac(1, 2), Frac(-1, 3), Frac(1, 3)>>,
     <<Frac(1, 2), Q(0), Frac(1, 2)>>, <<Frac(1, 2), Q(0), Q(1)>>,
     <<Frac(1, 2), Q(0), Frac(3, 2)>>, <<Frac(1, 2), Frac(1, 3), Frac(-1, 3)>>,
     <<Frac(1, 2), Frac(1, 3), Frac(1, 2)>>, <<Frac(1, 2), Frac(1, 2), Q(0)>>,
     <<Frac(1, 2), Frac(1, 2), Frac(1, 3)>>, <<Frac(1, 2), Frac(1, 2), Frac(1, 2)>>,
     <<Frac(1, 2), Frac(1, 2), Q(1)>>, <<Frac(1, 2), Frac(1, 2), Q(2)>>,
     <<Frac(1, 2), Q(1), Q(0)>>, <<Frac(1, 2), Q(1), Frac(3, 2)>>,
     <<Frac(2, 3), Q(0), Q(0)>>, <<Frac(2, 3), Frac(2, 3), Frac(-1, 3)>>,
     <<Q(1), Frac(1, 4), Frac(1, 4)>>, <<Q(1), Q(1), Q(0)>>,
     <<Frac(3, 2), Frac(3, 2), Q(1)>>}

\* points of 4 dimensions in the two pentachora and the two dispentachora of
\* the 4D get
OpenSimplexPoints4 ==
    {<<Frac(-1, 2), Q(0), Q(0), Frac(1, 2)>>, <<Frac(3, 4), Frac(3, 4), Frac(1, 4), Frac(1, 4)>>,
     <<Frac(-1, 2), Q(0), Q(1), Q(0)>>,
     <<Q(0), Q(1), Frac(1, 2), Frac(1, 2)>>, <<Q(0), Q(0), Q(1), Frac(1, 2)>>}

OpenSimplexPoints == OpenSimplexPoints2 \cup OpenSimplexPoints3 \cup OpenSimplexPoints4

\* points of 2, 3 and 4 dimensions inside lattice cells, on cell faces and at
\* negative coordinates
GetPoints(kind, form) ==
    {<<Frac(1, 2), Frac(1, 2)>>, <<Frac(1, 4), Frac(3, 4)>>, <<Frac(-1, 2), Frac(5, 4)>>}
    \cup (IF kind = "Perlin" /\ form = "get"
          THEN {<<Frac(5, 4), Q(0), Frac(3, 4)>>, <<Frac(1, 2), Frac(-1, 2), Frac(1, 4)>>,
                <<Frac(1, 2), Q(0), Q(0), Q(0)>>,
                <<Frac(1, 4), Frac(1, 2), Frac(3, 4), Frac(-1, 4)>>}
          ELSE {})
    \cup (IF kind = "OpenSimplex"
          THEN {<<Q(1), Frac(1, 4), Frac(1, 4)>>, <<Frac(1, 2), Frac(1, 2), Frac(1, 2)>>,
                <<Frac(-1, 2), Q(0), Q(0), Frac(1, 2)>>,
                <<Q(0), Q(0), Q(1), Frac(1, 2)>>}
          ELSE {})

\* NoiseFn<[f64; 2]>, NoiseFn<[f64; 3]> and NoiseFn<[f64; 4]> for OpenSimplex
OpenSimplex_get(self, point) ==
    CASE Len(point) = 2 -> OpenSimplex_get2(self, point)
      [] Len(point) = 3 -> OpenSimplex_get3(self, point)
      [] Len(point) = 4 -> OpenSimplex_get4(self, point)

Kernel_get(self, form, point) ==
    CASE self.kind = "Perlin" /\ form = "get" -> Perlin_get(self.k, point)
      [] self.kind = "Perlin" /\ form = "perlin_2d" -> perlin_2d(self.k, point)
      [] self.kind = "OpenSimplex" -> OpenSimplex_get(self.k, point)

\* a call that takes the noise function by value and returns the configured one
Build(op, args, t) ==
    /\ tree' = t
    /\ retv' = <<>>
    /\ last' = Op(op, args, "ok", tree)
    /\ UNCHANGED <<field, outf, nops, kern, ser, par, job, slots, wk>>

\* a call on &self
Ask(ret) ==
    /\ retv' = ret
    /\ UNCHANGED <<field, outf, last, nops, tree, kern, ser, par, job, slots, wk>>

KernelNew ==
    /\ tree = NoTree
    /\ \E kind \in KernelKinds : Build("new", <<kind>>, Kernel_new(kind))

SetSeed ==
    /\ tree.kind \in KernelKinds
    /\ \E seed \in SeedInputs : Build("set_seed", <<seed>>, Kernel_set_seed(tree, seed))

Seed ==
    /\ tree.kind \in KernelKinds
    /\ Ask(<<"seed", Kernel_seed(tree)>>)

Get ==
    /\ tree.kind \in KernelKinds
    /\ \E form \in GetForms(tree.kind) : \E point \in GetPoints(tree.kind, form) :
          Ask(<<form, point, Kernel_get(tree, form, point)>>)

\* process_field of a Perlin on a field of the caller
KernelProcessField ==
    /\ tree.kind = "Perlin"
    /\ \E f \in EvalFields :
          /\ field' = f
          /\ outf' = Perlin_process_field(tree.k, f)
          /\ retv' = <<"process_field">>
          /\ UNCHANGED <<last, nops, tree, kern, ser, par, job, slots, wk>>

KernelNext ==
    \/ KernelNew
    \/ SetSeed
    \/ Seed
    \/ Get
    \/ KernelProcessField

SpecKernel == Init /\ [][KernelNext]_vars

\* One evaluation of an OpenSimplex at a point of OpenSimplexPoints.  get is
\* on &self and changes nothing, so a run evaluates once after each set_seed.
SimplexGet ==
    /\ tree.kind = "OpenSimplex"
    /\ retv = <<>>
    /\ \E point \in OpenSimplexPoints : Ask(<<"get", point, OpenSimplex_get(tree.k, point)>>)

SimplexNext ==
    \/ KernelNew
    \/ SetSeed
    \/ SimplexGet

SpecSimplex == Init /\ [][SimplexNext]_vars

\* The setters take the function by value: they are explored on a function
\* that has not been evaluated, since get and process_field borrow it and
\* leave it as it was.
Configuring == tree.kind = "RidgedMulti" /\ outf = NoField /\ retv = <<>>

RidgedNew ==
    /\ tree = NoTree
    /\ Build("new", <<"RidgedMulti">>, [kind |-> "RidgedMulti", r |-> RidgedMulti_new])

RidgedSetSeed ==
    /\ Configuring
    /\ \E seed \in RidgedSeedInputs :
          Build("set_seed", <<seed>>, [tree EXCEPT !.r = RidgedMulti_set_seed(@, seed)])

RidgedSeed ==
    /\ Configuring
    /\ Ask(<<"seed", RidgedMulti_seed(tree.r)>>)

SetOctaves ==
    /\ Configuring
    /\ \E octaves \in OctaveInputs :
          Build("set_octaves", <<octaves>>,
                [tree EXCEPT !.r = RidgedMulti_set_octaves(@, octaves)])

SetFrequency ==
    /\ Configuring
    /\ \E frequency \in FrequencyInputs :
          Build("set_frequency", <<frequency>>,
                [tree EXCEPT !.r = RidgedMulti_set_frequency(@, frequency)])

SetLacunarity ==
    /\ Configuring
    /\ \E lacunarity \in LacunarityInputs :
          Build("set_lacunarity", <<lacunarity>>,
                [tree EXCEPT !.r = RidgedMulti_set_lacunarity(@, lacunarity)])

SetGain ==
    /\ Configuring
    /\ \E gain \in GainInputs :
          Build("set_gain", <<gain>>, [tree EXCEPT !.r = RidgedMulti_set_gain(@, gain)])

\* frequency.powf(-1.0) of the running frequency of calc_spectral_weights
SpectralWeight(w) == NInv(NMul(w.frequency, NPowi(w.lacunarity, w.power)))

\* the RidgedMulti with its spectral weights as numbers
RidgedMulti_numeric(self) ==
    [self EXCEPT !.spectral_weights =
        Collect([i \in 1..Len(@) |-> SpectralWeight(@[i])])]

\* largest octave count with which a RidgedMulti is evaluated
EvalOctaves == 3

\* a RidgedMulti is evaluated on points of n dimensions when the exact values
\* of its octaves stay small: with lacunarity 2 the octaves after the first
\* sample the integer lattice; with lacunarity 1 every octave samples the
\* half lattice, which two octaves in 2D allow
Evaluable(self, n) ==
    \/ self.lacunarity = Q(2) /\ self.octaves <= EvalOctaves
    \/ self.lacunarity = Q(1) /\ self.octaves < EvalOctaves /\ n = 2

\* the fields a RidgedMulti is evaluated on, on the half lattice
RidgedFields ==
    {NoiseField2D_build_field(NoiseField2D_new(2, 2).f,
                              HalfBounds(2), <<Frac(1, 2), Frac(3, 2)>>).f,
     NoiseField3D_build_field(NoiseField3D_new(1, 2, 2).f,
                              <<Q(0), Q(1)>>, <<Q(0), Q(1)>>, <<Q(0), Q(1)>>).f}

RidgedPoints == UNION {{f.coordinates[i] : i \in 1..Len(f.coordinates)} : f \in RidgedFields}

\* tree.get(point)
RidgedGet ==
    /\ Configuring
    /\ \E point \in RidgedPoints :
          /\ Evaluable(tree.r, Len(point))
          /\ Ask(<<"get", point, RidgedMulti_get(RidgedMulti_numeric(tree.r), point)>>)

\* tree.process_field(&f)
RidgedProcessField ==
    /\ Configuring
    /\ \E f \in RidgedFields :
          /\ Evaluable(tree.r, f.dim)
          /\ field' = f
          /\ outf' = RidgedMulti_process_field(RidgedMulti_numeric(tree.r), f)
          /\ retv' = <<"process_field">>
          /\ UNCHANGED <<last, nops, tree, kern, ser, par, job, slots, wk>>

SetNext ==
    \/ RidgedNew
    \/ RidgedSetSeed
    \/ RidgedSeed
    \/ SetOctaves
    \/ SetFrequency
    \/ SetLacunarity
    \/ SetGain
    \/ RidgedGet
    \/ RidgedProcessField

SpecSet == Init /\ [][SetNext]_vars

(***************************************************************************)
(* Claims about construction and configuration, checked under SpecSet and  *)
(* SpecKernel                                                              *)
(***************************************************************************)
\* the value of [1, MAX_OCTAVES] nearest to n
NearestOctaves(n) ==
    CHOOSE m \in 1..MAX_OCTAVES :
        \A k \in 1..MAX_OCTAVES : IAbs(m - n) <= IAbs(k - n)

\* C17: after any sequence of set_octaves, set_seed, set_frequency,
\* set_lacunarity and set_gain on RidgedMulti::new(), 1 <= octaves <= 32;
\* set_octaves(n) stores n clamped into [1, 32] and keeps seed, frequency,
\* lacunarity and gain.
C17_OctavesInRange ==
    tree.kind = "RidgedMulti" =>
        /\ 1 <= tree.r.octaves /\ tree.r.octaves <= 32
        /\ last.op = "set_octaves" =>
              /\ tree.r.octaves = NearestOctaves(last.args[1])
              /\ tree.r.seed = last.pre.r.seed
              /\ tree.r.frequency = last.pre.r.frequency
              /\ tree.r.lacunarity = last.pre.r.lacunarity
              /\ tree.r.gain = last.pre.r.gain

\* set_octaves(33) on a RidgedMulti whose seed, frequency, lacunarity and gain
\* had all been set away from their defaults
C17_Witness ==
    /\ tree.kind = "RidgedMulti"
    /\ last.op = "set_octaves" /\ last.args = <<MAX_OCTAVES + 1>>
    /\ tree.r.octaves = MAX_OCTAVES
    /\ last.pre.r.octaves # MAX_OCTAVES
    /\ tree.r.seed # 0 /\ tree.r.frequency # Q(1)
    /\ tree.r.lacunarity # Frac(217, 100) /\ tree.r.gain # Q(2)

\* C18: every value returned by Perlin point evaluation in 2D, 3D and 4D, in
\* the surflet and the gradient-lerp form, and every value that Perlin's
\* process_field places in a field lies in [-1, 1], for every seed.
C18_PerlinInUnitRange ==
    (tree.kind = "Perlin" /\ retv # <<>>) =>
        /\ retv[1] \in {"get", "perlin_2d"} =>
              NLe(Q(-1), retv[3]) /\ NLe(retv[3], Q(1))
        /\ retv[1] = "process_field" =>
              /\ Len(outf.values) = Len(field.coordinates)
              /\ \A i \in 1..Len(outf.values) :
                    NLe(Q(-1), outf.values[i]) /\ NLe(outf.values[i], Q(1))

\* a 3D evaluation, after a set_seed, returned the bound of the clamp
C18_Witness ==
    /\ tree.kind = "Perlin" /\ last.op = "set_seed"
    /\ retv # <<>> /\ retv[1] = "get" /\ Len(retv[2]) = 3
    /\ NAbs(retv[3]) = Q(1)

\* the seed most recently given to the kernel: that of the last set_seed, and
\* DEFAULT_SEED after new()
GivenSeed == IF last.op = "set_seed" THEN last.args[1] ELSE 0

\* a second kernel of the same kind, constructed and given the seed in one step
FreshKernel(kind, seed) == Kernel_set_seed(Kernel_new(kind), seed)

Evaluated == retv # <<>> /\ retv[1] \in {"get", "perlin_2d"}

\* an evaluation returned what a second kernel with the same seed returns for
\* the same point, and the kernel is as the last builder call returned it
C19_SameSeedSameValue ==
    tree.kind \in KernelKinds =>
        /\ Evaluated =>
              retv[3] = Kernel_get(FreshKernel(tree.kind, tree.k.seed), retv[1], retv[2])
        /\ tree = IF last.op = "set_seed"
                  THEN Kernel_set_seed(last.pre, last.args[1])
                  ELSE Kernel_new(tree.kind)

\* a step that is no builder call leaves seed and permutation table as they
\* were, and an evaluation at the point of the evaluation before it returns
\* the same value
C19_EvaluationPure ==
    (tree.kind \in KernelKinds /\ last' = last) =>
        /\ tree'.k.seed = tree.k.seed
        /\ tree'.k.perm_table = tree.k.perm_table
        /\ (Evaluated /\ Evaluated' /\ retv'[1] = retv[1] /\ retv'[2] = retv[2]) =>
              retv'[3] = retv[3]

\* C19: point evaluation is deterministic and pure: for Perlin and OpenSimplex
\* two kernels with the same seed return the same value for the same point,
\* repeated or interleaved evaluations return the same value for the same
\* point, and no evaluation (get or process_field) changes the kernel's seed
\* or permutation table.
C19_DeterministicPure == []C19_SameSeedSameValue /\ [][C19_EvaluationPure]_vars

\* an OpenSimplex that was given seed 0 again after another seed returned a
\* non-zero value
C19_Witness ==
    /\ tree.kind = "OpenSimplex"
    /\ last.op = "set_seed" /\ last.args = <<0>> /\ last.pre.k.seed # 0
    /\ Evaluated /\ retv[3] # Q(0)

\* C20: after any sequence of set_seed calls on Perlin::new() or
\* OpenSimplex::new(), seed() returns the most recently given seed (0 if
\* none) and the permutation table equals PermutationTable::new(seed()): it
\* depends on the current seed only; set_seed with the current seed returns
\* the kernel unchanged.
C20_SeedAndTable ==
    tree.kind \in KernelKinds =>
        /\ Kernel_seed(tree) = GivenSeed
        /\ (retv # <<>> /\ retv[1] = "seed") => retv[2] = GivenSeed
        /\ tree.k.perm_table = PermutationTable_new(GivenSeed)
        /\ (last.op = "set_seed" /\ last.args[1] = last.pre.k.seed) => tree = last.pre

\* seed() after set_seed(1) on a kernel that had been given the seed 2
C20_Witness ==
    /\ tree.kind \in KernelKinds
    /\ last.op = "set_seed" /\ last.args = <<1>> /\ last.pre.k.seed = 2
    /\ retv = <<"seed", 1>>


(***************************************************************************)
(* Claims about the coordinate operations of the fields.                   *)
(***************************************************************************)
\* C21: scale_coordinates(factor) returns a field in which every component of
\* every coordinate is the component of the original multiplied by factor,
\* with the same grid size and the same values; the field it is called on is
\* unchanged, and scaling by 1 returns an equal field.
C21_ScaleCoordinates ==
    last.op = "scale_coordinates" =>
        /\ field = last.pre
        /\ outf.dim = field.dim
        /\ outf.size = field.size
        /\ outf.values = field.values
        /\ Len(outf.coordinates) = Len(field.coordinates)
        /\ \A i \in 1..Len(field.coordinates) :
              /\ Len(outf.coordinates[i]) = field.dim
              /\ \A k \in 1..field.dim :
                    outf.coordinates[i][k] = NMul(field.coordinates[i][k], last.args[1])
        /\ last.args[1] = Q(1) => outf = field

\* a field with a coordinate that is not zero and a value that is not zero,
\* scaled by a factor other than 1
C21_Witness ==
    /\ last.op = "scale_coordinates" /\ last.args[1] # Q(1)
    /\ \E i \in 1..Len(field.coordinates) : field.coordinates[i][1] # Q(0)
    /\ \E i \in 1..Len(field.values) : field.values[i] # Q(0)
    /\ outf # field


\* the field f with every coordinate slot holding the point c
WithCoordinates(f, c) ==
    [f EXCEPT !.coordinates = Collect([i \in 1..Len(f.coordinates) |-> c])]

\* a point that no build_field of the bounds explored produces
FarPoint(n) == Vec(Q(99), n)

\* build_field with the arguments args applied to f
Rebuilt(f, args) ==
    IF f.dim = 2 THEN NoiseField2D_build_field(f, args[1], args[2])
    ELSE NoiseField3D_build_field(f, args[1], args[2], args[3])

CoordinateOps == {"build_field", "set_coord_at_point", "scale_coordinates"}

\* after a coordinate operation the values and the grid size are those of the
\* field it was applied to, and a build_field that returns has written every
\* slot: what the slots held before does not show in the result
C22_CoordinateOpsFrame ==
    /\ last.op \in CoordinateOps =>
          /\ field.values = last.pre.values
          /\ field.size = last.pre.size
          /\ last.op = "scale_coordinates" =>
                outf.values = last.pre.values /\ outf.size = last.pre.size
    /\ (last.op = "build_field" /\ last.status = "ok") =>
          /\ Len(field.coordinates) = Product(field.size)
          /\ field.coordinates =
                Rebuilt(WithCoordinates(last.pre, FarPoint(field.dim)), last.args).f.coordinates

\* a step of the field's client changes the values or the size only by
\* constructing the field or by set_values
C22_ValuesChangeOnlyBySetValues ==
    (field'.values # field.values \/ field'.size # field.size)
        => last'.op \in {"new", "initialize", "set_values"}

TheRidged == RidgedMulti_numeric(tree.r)

FieldEvaluated == retv = <<"process_field">> /\ tree.kind = "RidgedMulti"

PointEvaluated == retv # <<>> /\ retv[1] = "get" /\ tree.kind = "RidgedMulti"

\* the ridged, squared signals of the octaves at output index idx, before any
\* weighting, as process_field reads them from the octave fields
FieldRidges(self, f, idx) ==
    Collect([k \in 1..self.octaves |-> Ridge(RidgedMulti_fields(self, f)[k].values[idx])])

\* the same at a point, as get samples them
PointRidges(self, point) ==
    Collect([k \in 1..self.octaves |->
                Ridge(Perlin_get(self.sources[k],
                                 math_mul(point, NMul(self.frequency,
                                                      NPowi(self.lacunarity, k - 1)))))])

\* the weighted signal of octave k (from 0) under the recurrence: octave 0
\* has weight 1, octave k the weight clamp(gain * signal of octave k-1, 0, 1)
RECURSIVE WeightedSignal(_, _, _)
WeightedSignal(gain, ridges, k) ==
    IF k = 0 THEN ridges[1]
    ELSE NMul(ridges[k + 1],
              clamp(NMul(gain, WeightedSignal(gain, ridges, k - 1)), Q(0), Q(1)))

PreviousOctaveWeight(gain, ridges, k) ==
    clamp(NMul(gain, WeightedSignal(gain, ridges, k - 1)), Q(0), Q(1))

\* C23: in process_field, for every octave k >= 1 the weight multiplied into
\* octave k's ridged, squared signal is clamp(gain * s, 0, 1) with s the
\* signal of octave k-1, as in the recurrence of get.
C23_WeightFromPreviousOctave ==
    /\ FieldEvaluated =>
          \A idx \in 1..Len(field.coordinates) : \A k \in 1..(TheRidged.octaves - 1) :
              RidgedMulti_octaves(TheRidged, RidgedMulti_fields(TheRidged, field), idx,
                                  FieldRidges(TheRidged, field, idx)[1]).weights[k]
                  = PreviousOctaveWeight(TheRidged.gain, FieldRidges(TheRidged, field, idx), k)
    /\ PointEvaluated =>
          \A k \in 1..(TheRidged.octaves - 1) :
              RidgedMulti_get_octaves(TheRidged, retv[2]).weights[k + 1]
                  = PreviousOctaveWeight(TheRidged.gain, PointRidges(TheRidged, retv[2]), k)


\* C24: for RidgedMulti in 2D and 3D, process_field(field).values[i] equals
\* get(field.coordinates[i]) for every index i, with the octaves, frequency,
\* lacunarity and gain that the setters left.
C24_FieldEqualsGet ==
    FieldEvaluated =>
        /\ outf.coordinates = field.coordinates
        /\ Len(outf.values) = Len(field.coordinates)
        /\ \A i \in 1..Len(field.coordinates) :
              outf.values[i] = RidgedMulti_get(TheRidged, field.coordinates[i])


(***************************************************************************)
(* Claims about the lattice vertices of the kernels, checked under         *)
(* SpecKernel.                                                             *)
(***************************************************************************)
\* the surflet calls of Perlin::get at the point
Perlin_surflets(point) ==
    CASE Len(point) = 2 -> perlin_2d_surflets(point)
      [] Len(point) = 3 -> perlin_3d_surflets(point)
      [] Len(point) = 4 -> perlin_4d_surflets(point)

PerlinGot == tree.kind = "Perlin" /\ retv # <<>> /\ retv[1] = "get"

\* the offset of the point from the lattice coordinate c on one axis
AxisOffset(x, c) == NSub(x, Q(c))

\* C25: in Perlin surflet evaluation in 2D, 3D and 4D each of the 2^N lattice
\* corners gets a distance vector whose k-th component is the offset of axis
\* k itself: the near offset where the corner uses the near lattice
\* coordinate of axis k and the far offset (near - 1) where it uses the far
\* one.
C25_OwnAxisOffsets ==
    PerlinGot =>
        /\ Len(Perlin_surflets(retv[2])) = 2 ^ Len(retv[2])
        /\ \A i \in 1..Len(Perlin_surflets(retv[2])) : \A k \in 1..Len(retv[2]) :
              /\ Perlin_surflets(retv[2])[i][1][k] - NFloor(retv[2][k]).a \in {0, 1}
              /\ Perlin_surflets(retv[2])[i][2][k]
                    = AxisOffset(retv[2][k], Perlin_surflets(retv[2])[i][1][k])
        /\ \A i, j \in 1..Len(Perlin_surflets(retv[2])) :
              i # j => Perlin_surflets(retv[2])[i][1] # Perlin_surflets(retv[2])[j][1]

\* stretched_floor, rel_coords, pos0 and region_sum of the OpenSimplex get
OpenSimplex_cell(point) ==
    CASE Len(point) = 2 -> OpenSimplex_get2_cell(point)
      [] Len(point) = 3 -> OpenSimplex_get3_cell(point)
      [] Len(point) = 4 -> OpenSimplex_get4_cell(point)

\* the gradient calls of the OpenSimplex get in a cell of 2, 3 or 4 dimensions
OpenSimplex_cell_calls(cell) ==
    CASE Len(cell.pos0) = 2 ->
           OpenSimplex_get2_calls(cell.stretched_floor, cell.pos0,
               OpenSimplex_get2_vertex(cell.stretched_floor, cell.pos0, cell.region_sum),
               OpenSimplex_get2_ext(cell.stretched_floor, cell.rel_coords, cell.pos0,
                                    cell.region_sum))
      [] Len(cell.pos0) = 3 ->
           OpenSimplex_get3_calls(cell.stretched_floor, cell.rel_coords, cell.pos0,
                                  cell.region_sum)
      [] Len(cell.pos0) = 4 ->
           OpenSimplex_get4_calls(cell.stretched_floor, cell.pos0, cell.region_sum)

OpenSimplex_calls(point) == OpenSimplex_cell_calls(OpenSimplex_cell(point))

\* the squish constant of the dimension
SquishOf(n) ==
    CASE n = 2 -> SQUISH_CONSTANT_2D
      [] n = 3 -> SQUISH_CONSTANT_3D
      [] n = 4 -> SQUISH_CONSTANT_4D

\* an OpenSimplex has answered get: retv[2] is the point
OpenSimplexGot == tree.kind = "OpenSimplex" /\ retv # <<>> /\ retv[1] = "get"

\* v with stretched_floor + v = vertex
LatticeOffset(cell, vertex) == [k \in 1..Len(vertex) |-> NSub(vertex[k], cell.stretched_floor[k])]

\* v1 + .. + vn of an offset
RECURSIVE OffsetSum(_, _)
OffsetSum(v, k) == IF k = 0 THEN Q(0) ELSE NAdd(OffsetSum(v, k - 1), v[k])

\* pos0 - v - squish*sum(v): where the sample point lies from the vertex
\* stretched_floor + v
Displacement(cell, v) ==
    [k \in 1..Len(v) |->
        NSub(NSub(cell.pos0[k], v[k]), NMul(SquishOf(Len(v)), OffsetSum(v, Len(v))))]

\* call i of the cell hashes a lattice vertex and passes the displacement of
\* the sample point from that vertex
ExactCall(cell, call) ==
    /\ \A k \in 1..Len(call.vertex) : call.vertex[k].b = 0 /\ call.vertex[k].d = 1
    /\ call.dpos = Displacement(cell, LatticeOffset(cell, call.vertex))

ExactCalls(cell, calls) == \A i \in 1..Len(calls) : ExactCall(cell, calls[i])

ClosestPoints(cell) ==
    IF NLe(cell.region_sum, Q(1))
    THEN <<OpenSimplex_get3_closest_tetra0(cell.rel_coords)[1],
           OpenSimplex_get3_closest_tetra0(cell.rel_coords)[3]>>
    ELSE IF NLe(Q(2), cell.region_sum)
    THEN <<OpenSimplex_get3_closest_tetra1(cell.rel_coords)[1],
           OpenSimplex_get3_closest_tetra1(cell.rel_coords)[3]>>
    ELSE <<OpenSimplex_get3_closest(cell.rel_coords).a.point,
           OpenSimplex_get3_closest(cell.rel_coords).b.point>>

\* the lattice vertices of the gradient calls
CallVertices(calls) == {calls[i].vertex : i \in 1..Len(calls)}

\* 4 vertices in 2D, 6 in either tetrahedron and 8 in the octahedron of 3D
VertexCount(cell) ==
    IF Len(cell.pos0) = 2 THEN 4
    ELSE IF NLe(cell.region_sum, Q(1)) \/ NLe(Q(2), cell.region_sum) THEN 6
    ELSE 8

DistinctVertices(cell, calls) ==
    /\ Len(calls) = VertexCount(cell)
    /\ Cardinality(CallVertices(calls)) = VertexCount(cell)
    /\ Len(cell.pos0) = 3 => ClosestPoints(cell)[1] # ClosestPoints(cell)[2]

Smoothstep(t) == NSub(NMul(Q(3), NMul(t, t)), NMul(Q(2), NMul(t, NMul(t, t))))

\* the weight of the falloff arm around `edge` at the control value c
EdgeWeight(c, edge, f) == Smoothstep(NDiv(NSub(c, NSub(edge, f)), NMul(Q(2), f)))

\* the value a Select with the bounds (lo, hi) and the falloff f > 0 gives for
\* the control value c and the source values v1 and v2
FalloffValue(lo, hi, f, c, v1, v2) ==
    IF NLt(c, NSub(lo, f)) \/ ~NLt(c, NAdd(hi, f)) THEN v1
    ELSE IF ~NLt(c, NAdd(lo, f)) /\ NLt(c, NSub(hi, f)) THEN v2
    ELSE IF NLt(c, NAdd(lo, f)) THEN Lerp(v1, v2, EdgeWeight(c, lo, f))
    ELSE Lerp(v2, v1, EdgeWeight(c, hi, f))

\* the four control values at which an arm of the falloff begins or ends
FalloffEdges(lo, hi, f) ==
    {NSub(lo, f), NAdd(lo, f), NSub(hi, f), NAdd(hi, f)}

\* the interpolations of the two arms agree at the edge e with the constant
\* pieces next to them
ContinuousAt(lo, hi, f, e, v1, v2) ==
    CASE e = NSub(lo, f) -> Lerp(v1, v2, EdgeWeight(e, lo, f)) = v1
      [] e = NAdd(lo, f) -> Lerp(v1, v2, EdgeWeight(e, lo, f)) = v2
      [] e = NSub(hi, f) -> Lerp(v2, v1, EdgeWeight(e, hi, f)) = v2
      [] e = NAdd(hi, f) -> Lerp(v2, v1, EdgeWeight(e, hi, f)) = v1

\* C27: Select with falloff f > 0 and lo + f <= hi - f outputs source1's
\* value when control < lo - f or control >= hi + f, source2's value when
\* lo + f <= control < hi - f, and otherwise the lerp of the two source values
\* weighted by s_curve3((control - (edge - f)) / (2f)), from source1 to source2
\* across the lower edge and from source2 to source1 across the upper edge; at
\* lo - f, lo + f, hi - f and hi + f the arm's formula and the code give the
\* value of the constant piece next to it.
C27_SelectFalloff ==
    (/\ last.op = "process_field" /\ tree.kind = "Select"
     /\ NGt(tree.falloff, Q(0))
     /\ NLe(NAdd(tree.bounds[1], tree.falloff), NSub(tree.bounds[2], tree.falloff))) =>
        LET lo == tree.bounds[1]
            hi == tree.bounds[2]
            f == tree.falloff
            control == process_field(tree.control, field).values
            source1 == process_field(tree.source1, field).values
            source2 == process_field(tree.source2, field).values
        IN  /\ Len(outf.values) = Len(field.coordinates)
            /\ \A i \in 1..Len(outf.values) :
                  /\ outf.values[i] =
                         FalloffValue(lo, hi, f, control[i], source1[i], source2[i])
                  /\ \A e \in FalloffEdges(lo, hi, f) :
                        /\ ContinuousAt(lo, hi, f, e, source1[i], source2[i])
                        /\ Select_closure(tree, e, source1[i], source2[i]) =
                               FalloffValue(lo, hi, f, e, source1[i], source2[i])

\* Select with a positive falloff evaluated a control field with a value
\* strictly inside the arm of the lower edge and one strictly inside the arm of
\* the upper edge, at indices where the sources differ and the output is
\* neither source's value
C27_Witness ==
    /\ last.op = "process_field" /\ tree.kind = "Select"
    /\ NGt(tree.falloff, Q(0))
    /\ NLe(NAdd(tree.bounds[1], tree.falloff), NSub(tree.bounds[2], tree.falloff))
    /\ LET lo == tree.bounds[1]
           hi == tree.bounds[2]
           f == tree.falloff
           control == process_field(tree.control, field).values
           source1 == process_field(tree.source1, field).values
           source2 == process_field(tree.source2, field).values
           blended(i) == outf.values[i] # source1[i] /\ outf.values[i] # source2[i]
       IN  /\ \E i \in 1..Len(control) :
                 /\ NLt(NSub(lo, f), control[i]) /\ NLt(control[i], NAdd(lo, f))
                 /\ blended(i)
           /\ \E i \in 1..Len(control) :
                 /\ NLt(NSub(hi, f), control[i]) /\ NLt(control[i], NAdd(hi, f))
                 /\ blended(i)

\* the indices (from 0) at which get reads self.sources: x in 0..octaves
GetSourceIndices(self) == 0..(self.octaves - 1)

\* the indices at which the closure of process_field reads `fields`, which
\* has one field per source: 0, then current_octave in 1..octaves
FieldIndices(self) == {0} \cup 1..(self.octaves - 1)

\* the indices at which process_field reads and calc_spectral_weights writes
\* self.spectral_weights
WeightIndices(self) == 1..(self.octaves - 1) \cup 0..(self.octaves - 1)

\* every index of the set is one of the vector
InRange(indices, vector) == \A i \in indices : i < Len(vector)

\* C28: after any sequence of set_octaves, set_seed, set_frequency,
\* set_lacunarity and set_gain applied to RidgedMulti::new(), sources and
\* spectral_weights both have `octaves` elements, so get and process_field
\* read no source, octave field or spectral weight out of range.
C28_LengthsAgree ==
    tree.kind = "RidgedMulti" =>
        /\ Len(tree.r.sources) = tree.r.octaves
        /\ Len(tree.r.spectral_weights) = tree.r.octaves
        /\ InRange(GetSourceIndices(tree.r), tree.r.sources)
        /\ InRange(FieldIndices(tree.r), tree.r.sources)
        /\ InRange(WeightIndices(tree.r), tree.r.spectral_weights)

\* a RidgedMulti whose octave count and seed both differ from those of new()
\* was evaluated by process_field after set_seed had rebuilt its sources
C28_Witness ==
    /\ tree.kind = "RidgedMulti"
    /\ last.op = "set_seed" /\ last.pre.r.seed # tree.r.seed
    /\ tree.r.octaves \notin {DEFAULT_OCTAVES, 1}
    /\ Len(tree.r.sources) = tree.r.octaves
    /\ retv = <<"process_field">>

(***************************************************************************)
(* CylinderMapBuilder  (src/src/utils/noise_map_builder.rs), explored      *)
(* under SpecBuilder.  Its bounds are f64 values that the setters only     *)
(* compare and store, so a bound is kept as a number or NaN.               *)
(***************************************************************************)

\* an f64 that is the number n
F(n) == [nan |-> FALSE, num |-> Q(n)]

\* f64::NAN
NAN == [nan |-> TRUE, num |-> Q(0)]

\* a >= b and a <= b on f64: false when either operand is NaN
f64_ge(a, b) == ~a.nan /\ ~b.nan /\ ~NLt(a.num, b.num)

f64_le(a, b) == ~a.nan /\ ~b.nan /\ ~NLt(b.num, a.num)

\* CylinderMapBuilder::new(source_module)
CylinderMapBuilder_new(source_module) ==
    [kind |-> "CylinderMapBuilder",
     angle_bounds |-> <<F(-180), F(180)>>,
     height_bounds |-> <<F(-10), F(10)>>,
     size |-> <<1000, 1000>>,
     source_module |-> source_module]

\* a set_angle_bounds that switches the order when the lower bound is the
\* smaller one
CylinderMapBuilder_set_angle_bounds_mut(self, lower_bound, upper_bound) ==
    [self EXCEPT !.angle_bounds =
        IF f64_le(lower_bound, upper_bound)
        THEN <<upper_bound, lower_bound>>
        ELSE <<lower_bound, upper_bound>>]

CylinderMapBuilder_set_angle_bounds(self, lower_bound, upper_bound) ==
    [self EXCEPT !.angle_bounds =
        IF f64_ge(lower_bound, upper_bound)
        THEN <<upper_bound, lower_bound>>
        ELSE <<lower_bound, upper_bound>>]

CylinderMapBuilder_set_height_bounds(self, lower_bound, upper_bound) ==
    [self EXCEPT !.height_bounds =
        IF f64_ge(lower_bound, upper_bound)
        THEN <<upper_bound, lower_bound>>
        ELSE <<lower_bound, upper_bound>>]

CylinderMapBuilder_angle_bounds(self) == self.angle_bounds

CylinderMapBuilder_height_bounds(self) == self.height_bounds

\* impl NoiseMapBuilder for CylinderMapBuilder
CylinderMapBuilder_set_size(self, width, height) ==
    [self EXCEPT !.size = <<width, height>>]

CylinderMapBuilder_set_source_module(self, source_module) ==
    [self EXCEPT !.source_module = source_module]

CylinderMapBuilder_size(self) == self.size

\* the bounds given to the setters: below, equal to and above one another, and
\* NaN in either place
BoundInputs == {F(-1), F(1), NAN}

MapSizes == {<<2, 3>>}

\* the source modules a builder is given
SourceModules == {Perlin_with(0), Cylinders_new}

IsBuilder == tree.kind = "CylinderMapBuilder"

BuilderNew ==
    /\ tree = NoTree
    /\ \E source_module \in SourceModules :
          Build("new", <<source_module>>, CylinderMapBuilder_new(source_module))

SetAngleBounds ==
    /\ IsBuilder
    /\ \E lower_bound \in BoundInputs, upper_bound \in BoundInputs :
          Build("set_angle_bounds", <<lower_bound, upper_bound>>,
                CylinderMapBuilder_set_angle_bounds(tree, lower_bound, upper_bound))

SetHeightBounds ==
    /\ IsBuilder
    /\ \E lower_bound \in BoundInputs, upper_bound \in BoundInputs :
          Build("set_height_bounds", <<lower_bound, upper_bound>>,
                CylinderMapBuilder_set_height_bounds(tree, lower_bound, upper_bound))

SetSize ==
    /\ IsBuilder
    /\ \E size \in MapSizes :
          Build("set_size", size, CylinderMapBuilder_set_size(tree, size[1], size[2]))

SetSourceModule ==
    /\ IsBuilder
    /\ \E source_module \in SourceModules :
          Build("set_source_module", <<source_module>>,
                CylinderMapBuilder_set_source_module(tree, source_module))

\* the getters, on &self
BuilderGet ==
    /\ IsBuilder /\ retv = <<>>
    /\ \/ Ask(<<"angle_bounds", CylinderMapBuilder_angle_bounds(tree)>>)
       \/ Ask(<<"height_bounds", CylinderMapBuilder_height_bounds(tree)>>)
       \/ Ask(<<"size", CylinderMapBuilder_size(tree)>>)

BuilderNext ==
    \/ BuilderNew
    \/ SetAngleBounds
    \/ SetHeightBounds
    \/ SetSize
    \/ SetSourceModule
    \/ BuilderGet

SpecBuilder == Init /\ [][BuilderNext]_vars

\* the bounds that a setter given (lower, upper) is to store
StoredBounds(lower, upper) ==
    IF f64_ge(lower, upper) THEN <<upper, lower>> ELSE <<lower, upper>>

\* the last call was a setter of bounds: it stored the arguments in the order
\* the claim gives and left the other three fields as they were
SetterStoresAndKeeps ==
    /\ last.op = "set_angle_bounds" =>
          /\ tree.angle_bounds = StoredBounds(last.args[1], last.args[2])
          /\ tree.height_bounds = last.pre.height_bounds
          /\ tree.size = last.pre.size
          /\ tree.source_module = last.pre.source_module
    /\ last.op = "set_height_bounds" =>
          /\ tree.height_bounds = StoredBounds(last.args[1], last.args[2])
          /\ tree.angle_bounds = last.pre.angle_bounds
          /\ tree.size = last.pre.size
          /\ tree.source_module = last.pre.source_module

HasNaN(bounds) == bounds[1].nan \/ bounds[2].nan

\* C30 as stated: after any sequence of set_angle_bounds and
\* set_height_bounds calls the stored angle bounds and height bounds each have
\* lower <= upper; a call with lower >= upper stores the arguments swapped,
\* any other call stores them as given, and each setter leaves the other
\* bounds, the size and the source module unchanged.
C30_BoundsOrdered ==
    IsBuilder =>
        /\ f64_le(tree.angle_bounds[1], tree.angle_bounds[2])
        /\ f64_le(tree.height_bounds[1], tree.height_bounds[2])
        /\ SetterStoresAndKeeps

\* C30, amended: stored bounds have lower <= upper unless they hold a NaN,
\* which they do exactly when the last call that set them was given one; the
\* setters store and keep as the claim says, for every argument.
C30_BoundsOrderedUnlessNaN ==
    IsBuilder =>
        /\ ~HasNaN(tree.angle_bounds) =>
              f64_le(tree.angle_bounds[1], tree.angle_bounds[2])
        /\ ~HasNaN(tree.height_bounds) =>
              f64_le(tree.height_bounds[1], tree.height_bounds[2])
        /\ last.op \in {"set_angle_bounds", "set_height_bounds"} =>
              (HasNaN(IF last.op = "set_angle_bounds"
                      THEN tree.angle_bounds ELSE tree.height_bounds)
                  <=> HasNaN(last.args))
        /\ SetterStoresAndKeeps

\* set_angle_bounds was given a lower bound above the upper one and stored
\* them switched, on a builder whose height bounds had been set before
C30_Witness ==
    /\ IsBuilder /\ last.op = "set_angle_bounds"
    /\ ~HasNaN(last.args) /\ NLt(last.args[2].num, last.args[1].num)
    /\ tree.angle_bounds = <<last.args[2], last.args[1]>>
    /\ tree.height_bounds # CylinderMapBuilder_new(tree.source_module).height_bounds
    /\ tree.height_bounds = last.pre.height_bounds

====
